---- MODULE Spec2Model ----
(***************************************************************************)
(* PatchVec: the collection store (pave/stores/txtai_store.py), the        *)
(* ingestion and deletion services (pave/service.py) and the request       *)
(* admission layer (pave/main.py).                                         *)
(*                                                                         *)
(* Strings that the code inspects character by character (docids, chunk    *)
(* ids, sidecar file names) are sequences of one-character strings.        *)
(***************************************************************************)
EXTENDS Integers, Sequences, FiniteSets, TLC

\* ------------------------------------------------------------------ bounds
NumThreads == 2     \* worker threads calling into the store
NumDocs    == 2     \* docids taken from DocPool
MaxChunks  == 2     \* chunks a file can yield
MaxOps     == 2     \* store calls started in one behaviour
MaxLockOps == 2     \* store calls started in one behaviour of SpecLock
MaxSvcOps  == 3     \* service calls started in one behaviour of SpecSvc
NumReqs    == 2     \* request coroutines on the event loop
MaxJobs    == 3     \* jobs alive in the executors at one time
MaxSearches == 1    \* search.max_concurrent
MaxIngests  == 1    \* ingest.max_concurrent
MaxLimit    == 1    \* tenants.<t>.max_concurrent, default_max_concurrent
MaxGateReqs == 2    \* requests arriving in one behaviour of SpecGate
MaxTenantReqs == 3  \* requests arriving in one behaviour of SpecTenant
MaxRenameOps  == 2  \* store calls started in one behaviour of SpecRename
MaxArchiveOps == 2  \* calls started in one behaviour of SpecArchive
MaxCreateOps == 2   \* calls started in one behaviour of SpecCreate
MaxDeleteOps == 3   \* calls started in one behaviour of SpecDelete
MaxCount == 2       \* a counter of pave.metrics
LatencyWindow == 2  \* _LATENCY_WINDOW, scaled down from 1000
MaxLen == 3         \* characters in a string passed to _sanit_sql
MaxVals == 2        \* values a filter lists for one field
MaxRoundOps == 3
MaxLockCalls == 3
MaxTail == 3
MaxFaultOps == 3
MaxRestoreOps == 3
MaxOrderOps == 2
MaxPdfOps == 2
MaxSidecarOps == 3    \* calls, wipes and restarts in one behaviour of SpecRound

Threads == 1..NumThreads
Colls   == {"a", "b"}

\* ------------------------------------------------------------- strings
DocPool == << <<"x", ":", "y">>, <<"x", "_", "y">>, <<"z">>, <<"w">> >>
DocIds  == {DocPool[i] : i \in 1..NumDocs}
Digit   == <<"0", "1", "2", "3">>
NoDoc   == <<>>
NoText  == "none"
NoMeta  == [docid |-> NoDoc, tag |-> "none"]

StartsWith(s, p) == Len(s) >= Len(p) /\ SubSeq(s, 1, Len(p)) = p

\* f"{baseid}::{local_id}" with local_id = f"chunk_{i}"
LocalId(i)    == <<"chunk_", Digit[i + 1]>>
DocPrefix(d)  == d \o <<":", ":">>
Urid(d, i)    == DocPrefix(d) \o LocalId(i)

UridToFname(urid) ==
    [i \in 1..Len(urid) |->
        IF urid[i] \in {"/", "\\", ":"} THEN "_" ELSE urid[i]] \o <<".txt">>

\* ------------------------------------------------------------ partial maps
EmptyMap      == << >>
Has(m, k)     == k \in DOMAIN m
Get(m, k, dflt) == IF k \in DOMAIN m THEN m[k] ELSE dflt
Put(m, k, v)  == [x \in (DOMAIN m) \cup {k} |-> IF x = k THEN v ELSE m[x]]
Drop(m, ks)   == [x \in (DOMAIN m) \ ks |-> m[x]]
SeqToSet(s)   == {s[i] : i \in 1..Len(s)}

\* ------------------------------------------------------------------- files
\* An uploaded file: its extension, the number of chunks the chunker yields
\* and a tag standing for its content (and for filename / ingested_at).
Files ==
    {[ext |-> "txt", n |-> MaxChunks, tag |-> "t1"],
     [ext |-> "txt", n |-> 1, tag |-> "t2"],
     [ext |-> "txt", n |-> 0, tag |-> "t1"],
     [ext |-> "bin", n |-> 0, tag |-> "t1"]}

\* PDFs whose pages in "blank" yield no text, and an empty text file
PdfFiles ==
    {[ext |-> "pdf", n |-> MaxChunks, tag |-> "t1", blank |-> b] :
        b \in SUBSET (1..MaxChunks)}
      \cup {[ext |-> "txt", n |-> 0, tag |-> "t1"]}

PreprocessRaises(f) == f.ext \notin {"pdf", "txt", "csv"}

\* a PDF yields one chunk per page, "page.extract_text() or ''" as its text
preprocess(f) ==
    [i \in 1..f.n |->
        [local |-> IF f.ext = "pdf" THEN <<"page_", Digit[i]>>
                   ELSE LocalId(i - 1),
         text  |-> IF f.ext = "pdf" /\ i \in f.blank THEN "" ELSE f.tag]]

\* records built by ingest_document: (rid, text, meta)
IngestRecords(d, f) ==
    [i \in 1..f.n |->
        [rid  |-> DocPrefix(d) \o preprocess(f)[i].local,
         text |-> preprocess(f)[i].text,
         meta |-> [docid |-> d, tag |-> f.tag]]]


\* ---------------------------------------------------- on-disk layout, handle
NoIdx == [saved |-> FALSE, docs |-> EmptyMap]
NoDir ==
    [exists |-> FALSE, catFile |-> FALSE, catalog |-> EmptyMap,
     meta |-> EmptyMap, chunks |-> EmptyMap, idx |-> NoIdx]
NoEmb == [loaded |-> FALSE, docs |-> EmptyMap]

MakeDirs(dk) == [dk EXCEPT !.exists = TRUE]

\* TxtaiStore.load_or_init: keeps an installed handle, else creates the
\* directory and loads the persisted index when its marker file exists.
LoadOrInitEmb(dk, em) ==
    IF em.loaded THEN em
    ELSE [loaded |-> TRUE,
          docs |-> IF dk.idx.saved THEN dk.idx.docs ELSE EmptyMap]

LoadOrInitDisk(dk, em) == IF em.loaded THEN dk ELSE MakeDirs(dk)

\* TxtaiStore.save
SaveIdx(dk, em) ==
    IF ~em.loaded THEN dk
    ELSE [MakeDirs(dk) EXCEPT !.idx = [saved |-> TRUE, docs |-> em.docs]]

SaveMeta(dk, m) == [MakeDirs(dk) EXCEPT !.meta = m]

SaveCatalog(dk, cat) ==
    [MakeDirs(dk) EXCEPT !.catalog = cat, !.catFile = TRUE]

CatGet(cat, d) == Get(cat, d, <<>>)

has_doc(dk, d) == CatGet(dk.catalog, d) # <<>>

\* purge_doc, the loop over ids: os.remove of every sidecar that is a file
RemoveSidecars(dk, ids) ==
    [dk EXCEPT !.chunks = Drop(@, {UridToFname(u) : u \in SeqToSet(ids)})]

\* em.delete(ids); an exception of the engine is swallowed by purge_doc
EngineDelete(em, ids, fail) ==
    IF fail THEN em ELSE [em EXCEPT !.docs = Drop(@, SeqToSet(ids))]

\* index_records, normalisation of one record
NormRid(d, rid) == IF StartsWith(rid, DocPrefix(d)) THEN rid ELSE DocPrefix(d) \o rid

Normalize(d, recs) ==
    [i \in 1..Len(recs) |->
        [rid  |-> NormRid(d, recs[i].rid),
         text |-> recs[i].text,
         meta |-> [recs[i].meta EXCEPT !.docid = d]]]

\* m after "for p in kv: m[p.k] = p.v": the last write of a key wins
LastWith(kv, x) ==
    CHOOSE i \in 1..Len(kv) :
        /\ kv[i].k = x
        /\ \A j \in (i + 1)..Len(kv) : kv[j].k # x

PutAll(m, kv) ==
    LET ks == {kv[i].k : i \in 1..Len(kv)}
    IN  [x \in (DOMAIN m) \cup ks |->
            IF x \in ks THEN kv[LastWith(kv, x)].v ELSE m[x]]

\* _save_chunk_text for every prepared record
WriteSidecars(dk, prep) ==
    IF Len(prep) = 0 THEN dk
    ELSE [MakeDirs(dk) EXCEPT !.chunks =
            PutAll(@, [i \in 1..Len(prep) |->
                         [k |-> UridToFname(prep[i].rid),
                          v |-> prep[i].text]])]

\* meta_side[rid] = safe_meta
MetaSide(meta, prep) ==
    PutAll(meta, [i \in 1..Len(prep) |->
                    [k |-> prep[i].rid, v |-> prep[i].meta]])

RecordIds(prep) == [i \in 1..Len(prep) |-> prep[i].rid]

\* em.upsert(prepared): (rid, {"text": txt, **md_for_index}, meta_json)
EngineUpsert(em, prep) ==
    [em EXCEPT !.docs =
        PutAll(@, [i \in 1..Len(prep) |->
                     [k |-> prep[i].rid,
                      v |-> [text |-> prep[i].text,
                             docid |-> prep[i].meta.docid]]])]

\* ---------------------------------------------------------------- variables
VARIABLES
    disk,        \* data_dir: collection -> directory contents
    emb,         \* TxtaiStore._emb: collection -> index handle
    lockOwner,   \* _LOCKS: collection -> thread holding the mutex, 0 if free
    lockId,      \* id() of each mutex, the sort key of rename_collection
    pc,          \* thread -> position in the call it is executing
    frame,       \* thread -> arguments and locals of that call
    nops,        \* calls started so far
    track,       \* whether this behaviour records history (pre, prev, purged)
    purged       \* (collection, docid) purged and not ingested since

storeVars == <<disk, emb, lockOwner, lockId, pc, frame, nops, track, purged>>

VARIABLES
    active_searches,   \* app.state.active_searches
    active_ingests,    \* app.state.active_ingests
    timeout_on,        \* search.timeout_ms > 0
    rc,                \* request coroutine -> state of its handler
    jobs               \* jobs submitted to the two executors, oldest first

admVars == <<active_searches, active_ingests, timeout_on, rc, jobs>>

VARIABLES
    tenant_limits,         \* app.state.tenant_limits: tenant -> cap
    tenant_default_limit,  \* app.state.tenant_default_limit
    tenant_active,         \* app.state.tenant_active: tenant -> requests in flight
    caller                 \* request coroutine -> the AuthContext it runs under

tenVars == <<tenant_limits, tenant_default_limit, tenant_active, caller>>

VARIABLES
    arg,           \* the argument a pure function of the store is applied to
    val,           \* what the function returned for it
    metrics,       \* pave.metrics: _counters, _last_error, _latencies, _dirty
    metrics_file,  \* data_dir/metrics.json
    saving,        \* thread -> the data a save() in progress will write
    registry       \* _LOCKS, _LOCKS_GUARD and the threads inside get_lock

auxVars == <<arg, val, metrics, metrics_file, saving, registry>>

vars == <<disk, emb, lockOwner, lockId, pc, frame, nops, track, purged,
          active_searches, active_ingests, timeout_on, rc, jobs,
          tenant_limits, tenant_default_limit, tenant_active, caller,
          arg, val, metrics, metrics_file, saving, registry>>


\* ------------------------------------------------------------- ZIP archives
\* what a ZIP holds for one collection directory: nothing, the directory
\* entry of an empty directory, or the files found in it
NoZDir ==
    [kind |-> "none", catalog |-> <<>>, meta |-> <<>>, chunks |-> EmptyMap,
     index |-> <<>>]

NoZip == [c \in Colls |-> NoZDir]

\* a walk that adds files only and drops the empty directories
ZipDirFilesOnly(dk) ==
    IF ~dk.exists \/ ~(\/ dk.catFile \/ DOMAIN dk.meta # {}
                       \/ DOMAIN dk.chunks # {} \/ dk.idx.saved)
      THEN NoZDir
      ELSE [kind    |-> "files",
            catalog |-> IF dk.catFile THEN <<dk.catalog>> ELSE <<>>,
            meta    |-> IF DOMAIN dk.meta # {} THEN <<dk.meta>> ELSE <<>>,
            chunks  |-> dk.chunks,
            index   |-> IF dk.idx.saved THEN <<dk.idx.docs>> ELSE <<>>]

\* _write_zip, the walk of one collection directory: every file by its
\* relative name; a directory entry only when there is no file and no
\* subdirectory
ZipDir(dk) ==
    IF ~dk.exists THEN NoZDir
    ELSE LET files == \/ dk.catFile \/ DOMAIN dk.meta # {}
                      \/ DOMAIN dk.chunks # {} \/ dk.idx.saved
         IN  [kind    |-> IF files THEN "files" ELSE "emptydir",
              catalog |-> IF dk.catFile THEN <<dk.catalog>> ELSE <<>>,
              meta    |-> IF DOMAIN dk.meta # {} THEN <<dk.meta>> ELSE <<>>,
              chunks  |-> dk.chunks,
              index   |-> IF dk.idx.saved THEN <<dk.idx.docs>> ELSE <<>>]

\* zf.extractall and shutil.move of one collection directory
ExtractDir(z) ==
    IF z.kind = "none" THEN NoDir
    ELSE [exists  |-> TRUE,
          catFile |-> z.catalog # <<>>,
          catalog |-> IF z.catalog # <<>> THEN z.catalog[1] ELSE EmptyMap,
          meta    |-> IF z.meta # <<>> THEN z.meta[1] ELSE EmptyMap,
          chunks  |-> z.chunks,
          idx     |-> IF z.index # <<>>
                        THEN [saved |-> TRUE, docs |-> z.index[1]]
                        ELSE NoIdx]

\* member names, token by token: "/" and "\" are the separators, ".." the
\* parent directory, "x" any other text
MemberNames ==
    {<<"x">>, <<"x", "/", "x">>, <<"..", "x">>,
     <<"/", "x">>, <<"\\", "x">>, <<"..", "/", "x">>, <<"x", "/", "..">>}

\* Path(name).parts on POSIX without the root: the runs between "/"
RECURSIVE Parts(_)
Parts(name) ==
    IF name = <<>> THEN {}
    ELSE LET cut == IF \E i \in 1..Len(name) : name[i] = "/"
                      THEN CHOOSE i \in 1..Len(name) :
                              /\ name[i] = "/"
                              /\ \A j \in 1..(i - 1) : name[j] # "/"
                      ELSE Len(name) + 1
             part == SubSeq(name, 1, cut - 1)
         IN  (IF part = <<>> THEN {} ELSE {part})
               \cup Parts(SubSeq(name, cut + 1, Len(name)))

\* _validate_zip_members for one member: raises ValueError iff FALSE
MemberOk(name) ==
    \/ name = <<>>
    \/ /\ name[1] # "/"
       /\ <<"..">> \notin Parts(name)
       /\ name[1] \notin {"/", "\\"}

\* an upload: bytes that are a ZIP or not, its member names, its tree
\* (history: src, what data_dir and the collections held when a dump that
\* produced it started)
NoUpload == [zip |-> FALSE, names |-> {}, tree |-> NoZip, src |-> <<>>]

\* ------------------------------------------------------------ call frames
NoFile == [ext |-> "none", n |-> 0, tag |-> "none"]
NoView == [cat |-> {}, meta |-> {}, side |-> {}, eng |-> {}]
NoCall == [op |-> "none", c |-> "a", d |-> NoDoc, f |-> NoFile, res |-> "none"]

Frame0 ==
    [op |-> "none", c |-> "a", c2 |-> "a", d |-> NoDoc, f |-> NoFile, k |-> 0,
     recs |-> <<>>, cat |-> EmptyMap, meta |-> EmptyMap, ids |-> <<>>,
     prep |-> <<>>, cnt |-> -1, res |-> "none",
     kept |-> EmptyMap, snap |-> EmptyMap, out |-> EmptyMap, pre |-> NoView,
     prev |-> NoCall,
     keys |-> <<>>, held |-> 0, todo |-> <<>>, zip |-> NoZip, up |-> NoUpload,
     before |-> <<>>, em |-> NoEmb]

\* the locals die when the call returns
Returned(fr, res) ==
    [fr EXCEPT !.res = res, !.recs = <<>>, !.cat = EmptyMap,
               !.meta = EmptyMap, !.ids = <<>>, !.prep = <<>>,
               !.kept = EmptyMap]

Resting(t) == pc[t] \in {"idle", "done"}

\* what the four stores hold for docid d: chunk ids (with their content tag)
EscPrefix(d) == SubSeq(UridToFname(DocPrefix(d)), 1, Len(d) + 2)

DocView(dk, em, d) ==
    [cat  |-> SeqToSet(CatGet(dk.catalog, d)),
     meta |-> {<<u, dk.meta[u].tag>> :
                  u \in {v \in DOMAIN dk.meta : StartsWith(v, DocPrefix(d))}},
     side |-> {<<n, dk.chunks[n]>> :
                  n \in {v \in DOMAIN dk.chunks : StartsWith(v, EscPrefix(d))}},
     eng  |-> {<<u, LoadOrInitEmb(dk, em).docs[u].text>> :
                  u \in {v \in DOMAIN LoadOrInitEmb(dk, em).docs :
                            StartsWith(v, DocPrefix(d))}}]

\* ------------------------------------------------------- history variables
CallRec(fr) == [op |-> fr.op, c |-> fr.c, d |-> fr.d, f |-> fr.f, res |-> fr.res]

Ingesting(u, c, d) ==
    /\ ~Resting(u)
    /\ frame[u].op \in {"ingest_document", "index_records"}
    /\ frame[u].c = c
    /\ frame[u].d = d

\* purged: (c, d) such that purge_doc or delete_document of d has returned
\* and no ingest of d into c was in progress then or was called since
PurgedStep(t) ==
    LET fr == frame'[t]
    IN  purged' =
          IF Resting(t)
            THEN IF fr.op \in {"ingest_document", "index_records"}
                   THEN purged \ {<<fr.c, fr.d>>} ELSE purged
          ELSE IF pc[t] = "dc_body"
            THEN {p \in purged : p[1] # fr.c}
          ELSE IF pc[t] = "rn_body"
            THEN {p \in purged : p[1] \notin {fr.c, fr.c2}}
          ELSE IF /\ pc'[t] = "done"
                  /\ fr.op \in {"purge_doc", "delete_document"}
                  /\ \A u \in Threads \ {t} : ~Ingesting(u, fr.c, fr.d)
            THEN purged \cup {<<fr.c, fr.d>>}
          ELSE purged

History(t) ==
    /\ track' = track
    /\ IF track THEN PurgedStep(t) ELSE purged' = purged

\* ------------------------------------------------------------------ locks
\* a lock taken without waiting for its holder
AcquireNoWait(t, c) == lockOwner' = [lockOwner EXCEPT ![c] = t]

\* collection_lock.__enter__: lock.acquire() blocks until the mutex is free
Acquire(t, c) ==
    /\ lockOwner[c] = 0
    /\ lockOwner' = [lockOwner EXCEPT ![c] = t]

Release(c) == [lockOwner EXCEPT ![c] = 0]

\* ------------------------------------------------------------ the calls
\* the arguments the callers draw from: collections, docids, files
AllIn  == [cs |-> Colls, ds |-> DocIds, fs |-> Files]
OneIn  == [cs |-> {"a"}, ds |-> DocIds, fs |-> Files]
LockIn == [cs |-> Colls, ds |-> {DocPool[1]},
           fs |-> {f \in Files : f.ext = "txt" /\ f.n = 1}]

StartCall(t, fr, label, B) ==
    /\ Resting(t)
    /\ nops < B
    /\ nops' = nops + 1
    /\ frame' = [frame EXCEPT ![t] =
          [fr EXCEPT !.prev = IF track /\ pc[t] = "done"
                                THEN CallRec(frame[t]) ELSE NoCall]]
    /\ pc' = [pc EXCEPT ![t] = label]
    /\ UNCHANGED <<disk, emb, lockOwner, lockId>>
    /\ History(t)
    /\ UNCHANGED <<admVars, tenVars, auxVars>>

\* service.ingest_document(store, tenant, collection, filename, content, docid)
CallIngest(t, In, B) ==
    \E c \in In.cs, d \in In.ds, f \in In.fs :
        StartCall(t, [Frame0 EXCEPT !.op = "ingest_document", !.c = c,
                          !.d = d, !.f = f,
                          !.pre = IF track THEN DocView(disk[c], emb[c], d)
                                  ELSE NoView],
                  "ing_has_doc", B)

\* service.delete_document(store, tenant, collection, docid)
CallDeleteDocument(t, In, B) ==
    \E c \in In.cs, d \in In.ds :
        StartCall(t, [Frame0 EXCEPT !.op = "delete_document", !.c = c,
                          !.d = d], "del_has_doc", B)

\* store.purge_doc(tenant, collection, docid)
CallPurgeDoc(t, In, B) ==
    \E c \in In.cs, d \in In.ds :
        StartCall(t, [Frame0 EXCEPT !.op = "purge_doc", !.c = c, !.d = d],
                  "pg_acquire", B)

\* store.index_records(tenant, collection, docid, records)
CallIndexRecords(t, In, B) ==
    \E c \in In.cs, d \in In.ds,
       f \in {g \in In.fs : g.ext = "txt" /\ g.n > 0} :
        StartCall(t, [Frame0 EXCEPT !.op = "index_records", !.c = c,
                          !.d = d, !.f = f, !.recs = IngestRecords(d, f)],
                  "ix_acquire", B)

\* store.search(tenant, collection, query, k)
CallSearch(t, In, B) ==
    \E c \in In.cs, k \in {1, 5} :
        StartCall(t, [Frame0 EXCEPT !.op = "search", !.c = c, !.k = k],
                  "sr_acquire", B)

\* store.delete_collection(tenant, collection)
CallDeleteCollection(t, In, B) ==
    \E c \in In.cs :
        StartCall(t, [Frame0 EXCEPT !.op = "delete_collection", !.c = c],
                  "dc_acquire", B)

\* ------------------------------------------------- service.ingest_document
\* lines 163-181: the chunker runs, then index_records is called
AfterPurge(fr) ==
    IF PreprocessRaises(fr.f)
      THEN <<"done", Returned(fr, "invalid_csv_options")>>
    ELSE IF fr.f.n = 0
      THEN <<"done", Returned(fr, "no_text_extracted")>>
    ELSE <<"ix_acquire", [fr EXCEPT !.recs = IngestRecords(fr.d, fr.f)]>>

\* where purge_doc returns to, with its count
PurgeReturn(fr, n) ==
    IF fr.op = "ingest_document"
      THEN AfterPurge([fr EXCEPT !.cnt = n, !.cat = EmptyMap,
                          !.meta = EmptyMap, !.ids = <<>>])
      ELSE <<"done", Returned([fr EXCEPT !.cnt = n], "ok")>>

\* line 160: has_doc reads catalog.json without the collection lock
IngHasDoc(t) ==
    /\ pc[t] = "ing_has_doc"
    /\ LET fr  == frame[t]
           nxt == IF has_doc(disk[fr.c], fr.d)
                    THEN <<"pg_acquire", fr>> ELSE AfterPurge(fr)
       IN  /\ pc' = [pc EXCEPT ![t] = nxt[1]]
           /\ frame' = [frame EXCEPT ![t] = nxt[2]]
    /\ UNCHANGED <<disk, emb, lockOwner, lockId, nops>>
    /\ History(t)
    /\ UNCHANGED <<admVars, tenVars, auxVars>>

\* service.delete_document line 120
DelHasDoc(t) ==
    /\ pc[t] = "del_has_doc"
    /\ LET fr  == frame[t]
           nxt == IF has_doc(disk[fr.c], fr.d)
                    THEN <<"pg_acquire", fr>>
                    ELSE <<"done", Returned([fr EXCEPT !.cnt = 0], "ok")>>
       IN  /\ pc' = [pc EXCEPT ![t] = nxt[1]]
           /\ frame' = [frame EXCEPT ![t] = nxt[2]]
    /\ UNCHANGED <<disk, emb, lockOwner, lockId, nops>>
    /\ History(t)
    /\ UNCHANGED <<admVars, tenVars, auxVars>>

\* ------------------------------------------------------ TxtaiStore.purge_doc
PgAcquire(t) ==
    /\ pc[t] = "pg_acquire"
    /\ Acquire(t, frame[t].c)
    /\ pc' = [pc EXCEPT ![t] = "pg_files"]
    /\ UNCHANGED <<disk, emb, lockId, frame, nops>>
    /\ History(t)
    /\ UNCHANGED <<admVars, tenVars, auxVars>>

\* purge_doc without "del cat[docid]"
PgFilesKeepsEntry(t) ==
    /\ pc[t] = "pg_files"
    /\ LET fr  == frame[t]
           c   == fr.c
           cat == disk[c].catalog
           ids == CatGet(cat, fr.d)
       IN  IF ids = <<>>
             THEN /\ lockOwner' = Release(c)
                  /\ pc' = [pc EXCEPT ![t] = PurgeReturn(fr, 0)[1]]
                  /\ frame' = [frame EXCEPT ![t] = PurgeReturn(fr, 0)[2]]
                  /\ UNCHANGED disk
             ELSE /\ disk' = [disk EXCEPT ![c] = RemoveSidecars(@, ids)]
                  /\ frame' = [frame EXCEPT ![t] =
                        [fr EXCEPT !.ids = ids,
                                   !.cat = cat,
                                   !.meta = Drop(disk[c].meta, SeqToSet(ids))]]
                  /\ pc' = [pc EXCEPT ![t] = "pg_save"]
                  /\ UNCHANGED lockOwner
    /\ UNCHANGED <<emb, lockId, nops>>
    /\ History(t)
    /\ UNCHANGED <<admVars, tenVars, auxVars>>

\* lines 234-253: load catalog and meta, drop the sidecars of the doc's ids
PgFiles(t) ==
    /\ pc[t] = "pg_files"
    /\ LET fr  == frame[t]
           c   == fr.c
           cat == disk[c].catalog
           ids == CatGet(cat, fr.d)
       IN  IF ids = <<>>
             THEN /\ lockOwner' = Release(c)
                  /\ pc' = [pc EXCEPT ![t] = PurgeReturn(fr, 0)[1]]
                  /\ frame' = [frame EXCEPT ![t] = PurgeReturn(fr, 0)[2]]
                  /\ UNCHANGED disk
             ELSE /\ disk' = [disk EXCEPT ![c] = RemoveSidecars(@, ids)]
                  /\ frame' = [frame EXCEPT ![t] =
                        [fr EXCEPT !.ids = ids,
                                   !.cat = Drop(cat, {fr.d}),
                                   !.meta = Drop(disk[c].meta, SeqToSet(ids))]]
                  /\ pc' = [pc EXCEPT ![t] = "pg_save"]
                  /\ UNCHANGED lockOwner
    /\ UNCHANGED <<emb, lockId, nops>>
    /\ History(t)
    /\ UNCHANGED <<admVars, tenVars, auxVars>>

\* lines 255-256
PgSave(t) ==
    /\ pc[t] = "pg_save"
    /\ LET fr == frame[t]
       IN  disk' = [disk EXCEPT ![fr.c] =
                        SaveCatalog(SaveMeta(@, fr.meta), fr.cat)]
    /\ pc' = [pc EXCEPT ![t] = "pg_engine"]
    /\ UNCHANGED <<emb, lockOwner, lockId, frame, nops>>
    /\ History(t)
    /\ UNCHANGED <<admVars, tenVars, auxVars>>

\* lines 259-271: load_or_init, em.delete, save, return len(ids)
PgEngine(t, Faults) ==
    /\ pc[t] = "pg_engine"
    /\ \E fail \in Faults :
        LET fr  == frame[t]
            c   == fr.c
            em1 == LoadOrInitEmb(disk[c], emb[c])
            dk1 == LoadOrInitDisk(disk[c], emb[c])
            em2 == EngineDelete(em1, fr.ids, fail)
            nxt == PurgeReturn(fr, Len(fr.ids))
        IN  /\ emb' = [emb EXCEPT ![c] = em2]
            /\ disk' = [disk EXCEPT ![c] = SaveIdx(dk1, em2)]
            /\ lockOwner' = Release(c)
            /\ pc' = [pc EXCEPT ![t] = nxt[1]]
            /\ frame' = [frame EXCEPT ![t] = nxt[2]]
    /\ UNCHANGED <<lockId, nops>>
    /\ History(t)
    /\ UNCHANGED <<admVars, tenVars, auxVars>>


\* -------------------------------------------------- TxtaiStore.index_records
\* where index_records returns to: a return value or an engine exception
IndexReturn(fr, n, raised) ==
    IF raised
      THEN Returned(fr, IF fr.op = "ingest_document"
                          THEN "ingest_failed" ELSE "raised")
      ELSE Returned([fr EXCEPT !.cnt = n], "ok")

IxAcquire(t) ==
    /\ pc[t] = "ix_acquire"
    /\ Acquire(t, frame[t].c)
    /\ pc' = [pc EXCEPT ![t] = "ix_prepare"]
    /\ UNCHANGED <<disk, emb, lockId, frame, nops>>
    /\ History(t)
    /\ UNCHANGED <<admVars, tenVars, auxVars>>

\* lines 305-363: load_or_init, load catalog and meta, normalise every
\* record, write its sidecar; return 0 when nothing was prepared
IxPrepare(t) ==
    /\ pc[t] = "ix_prepare"
    /\ LET fr   == frame[t]
           c    == fr.c
           em1  == LoadOrInitEmb(disk[c], emb[c])
           dk1  == LoadOrInitDisk(disk[c], emb[c])
           prep == Normalize(fr.d, fr.recs)
       IN  /\ emb' = [emb EXCEPT ![c] = em1]
           /\ disk' = [disk EXCEPT ![c] = WriteSidecars(dk1, prep)]
           /\ IF Len(prep) = 0
                THEN /\ lockOwner' = Release(c)
                     /\ pc' = [pc EXCEPT ![t] = "done"]
                     /\ frame' = [frame EXCEPT ![t] = IndexReturn(fr, 0, FALSE)]
                ELSE /\ frame' = [frame EXCEPT ![t] =
                           [fr EXCEPT !.prep = prep,
                                      !.ids = RecordIds(prep),
                                      !.cat = dk1.catalog,
                                      !.meta = MetaSide(dk1.meta, prep)]]
                     /\ pc' = [pc EXCEPT ![t] = "ix_save"]
                     /\ UNCHANGED lockOwner
    /\ UNCHANGED <<lockId, nops>>
    /\ History(t)
    /\ UNCHANGED <<admVars, tenVars, auxVars>>

\* lines 365-367: catalog[docid] = record_ids, save catalog, save meta
IxSave(t) ==
    /\ pc[t] = "ix_save"
    /\ LET fr == frame[t]
       IN  disk' = [disk EXCEPT ![fr.c] =
                SaveMeta(SaveCatalog(@, Put(fr.cat, fr.d, fr.ids)), fr.meta)]
    /\ pc' = [pc EXCEPT ![t] = "ix_upsert"]
    /\ UNCHANGED <<emb, lockOwner, lockId, frame, nops>>
    /\ History(t)
    /\ UNCHANGED <<admVars, tenVars, auxVars>>

\* lines 368-371: em.upsert (the engine may raise), save, return the count
IxUpsert(t, Faults) ==
    /\ pc[t] = "ix_upsert"
    /\ \E fail \in Faults :
        LET fr  == frame[t]
            c   == fr.c
            em2 == EngineUpsert(emb[c], fr.prep)
        IN  /\ emb' = [emb EXCEPT ![c] = IF fail THEN @ ELSE em2]
            /\ disk' = [disk EXCEPT ![c] = IF fail THEN @ ELSE SaveIdx(@, em2)]
            /\ frame' = [frame EXCEPT ![t] =
                            IndexReturn(fr, Len(fr.prep), fail)]
    /\ lockOwner' = Release(frame[t].c)
    /\ pc' = [pc EXCEPT ![t] = "done"]
    /\ UNCHANGED <<lockId, nops>>
    /\ History(t)
    /\ UNCHANGED <<admVars, tenVars, auxVars>>

\* ------------------------------------------------------- TxtaiStore.search
SrAcquire(t) ==
    /\ pc[t] = "sr_acquire"
    /\ Acquire(t, frame[t].c)
    /\ pc' = [pc EXCEPT ![t] = "sr_query"]
    /\ UNCHANGED <<disk, emb, lockId, frame, nops>>
    /\ History(t)
    /\ UNCHANGED <<admVars, tenVars, auxVars>>

\* _load_chunk_text
LoadChunkText(dk, urid) == Get(dk.chunks, UridToFname(urid), NoText)

Max(a, b) == IF a >= b THEN a ELSE b
Min(a, b) == IF a <= b THEN a ELSE b

\* lines 590-624: load_or_init, em.search, load meta, keep the first kk rows,
\* em.lookup for the kept rows without text.  The engine decides which rows
\* it returns first and whether rows or lookup carry the text.
SrQuery(t) ==
    /\ pc[t] = "sr_query"
    /\ LET fr  == frame[t]
           c   == fr.c
           em1 == LoadOrInitEmb(disk[c], emb[c])
           dk1 == LoadOrInitDisk(disk[c], emb[c])
           kk  == Max(1, fr.k)
           n   == Min(kk, Cardinality(DOMAIN em1.docs))
       IN  \E sel \in {x \in SUBSET (DOMAIN em1.docs) : Cardinality(x) = n},
              how \in {"row", "lookup", "none"} :
             /\ emb' = [emb EXCEPT ![c] = em1]
             /\ disk' = [disk EXCEPT ![c] = dk1]
             /\ frame' = [frame EXCEPT ![t] =
                  [fr EXCEPT
                     !.kept = [u \in sel |->
                        [text |-> IF how = "none" THEN NoText
                                  ELSE em1.docs[u].text,
                         meta |-> Get(dk1.meta, u, NoMeta)]],
                     !.snap = [u \in sel |->
                        IF how = "none" THEN LoadChunkText(dk1, u)
                        ELSE em1.docs[u].text]]]
    /\ lockOwner' = Release(frame[t].c)
    /\ pc' = [pc EXCEPT ![t] = "sr_out"]
    /\ UNCHANGED <<lockId, nops>>
    /\ History(t)
    /\ UNCHANGED <<admVars, tenVars, auxVars>>

\* lines 626-644, outside the lock: rows still without text are hydrated
\* from the sidecar files
SrOut(t) ==
    /\ pc[t] = "sr_out"
    /\ LET fr == frame[t]
           out == [u \in DOMAIN fr.kept |->
                     [text |-> IF fr.kept[u].text = NoText
                                 THEN LoadChunkText(disk[fr.c], u)
                                 ELSE fr.kept[u].text,
                      meta |-> fr.kept[u].meta]]
       IN  frame' = [frame EXCEPT ![t] = Returned([fr EXCEPT !.out = out], "ok")]
    /\ pc' = [pc EXCEPT ![t] = "done"]
    /\ UNCHANGED <<disk, emb, lockOwner, lockId, nops>>
    /\ History(t)
    /\ UNCHANGED <<admVars, tenVars, auxVars>>

\* ------------------------------------------- TxtaiStore.delete_collection
DcAcquire(t) ==
    /\ pc[t] = "dc_acquire"
    /\ Acquire(t, frame[t].c)
    /\ pc' = [pc EXCEPT ![t] = "dc_body"]
    /\ UNCHANGED <<disk, emb, lockId, frame, nops>>
    /\ History(t)
    /\ UNCHANGED <<admVars, tenVars, auxVars>>

\* lines 154-159: drop the handle, rmtree the directory
DcBody(t) ==
    /\ pc[t] = "dc_body"
    /\ LET c == frame[t].c
       IN  /\ emb' = [emb EXCEPT ![c] = NoEmb]
           /\ disk' = [disk EXCEPT ![c] = NoDir]
           /\ lockOwner' = Release(c)
    /\ frame' = [frame EXCEPT ![t] = Returned(@, "ok")]
    /\ pc' = [pc EXCEPT ![t] = "done"]
    /\ UNCHANGED <<lockId, nops>>
    /\ History(t)
    /\ UNCHANGED <<admVars, tenVars, auxVars>>

\* TxtaiStore.list_collections: the c_* directories of the tenant that hold
\* a catalog.json
list_collections(dk) == {c \in Colls : dk[c].exists /\ dk[c].catFile}

\* TxtaiStore.list_tenants: the tenant has a t_* directory
list_tenants(dk) == \E c \in Colls : dk[c].exists

\* ------------------------------------------- service.create_collection
\* create_collection(store, tenant, name): load_or_init then save, with no
\* collection lock
CallCreateCollection(t, In, B) ==
    \E c \in In.cs :
        StartCall(t, [Frame0 EXCEPT !.op = "create_collection", !.c = c],
                  "cc_load", B)

\* store.load_or_init(tenant, name), lines 120-137: return when the key has
\* a handle, else makedirs and build a handle from the index on disk
CcLoad(t) ==
    /\ pc[t] = "cc_load"
    /\ LET c == frame[t].c
       IN  IF emb[c].loaded
             THEN /\ pc' = [pc EXCEPT ![t] = "cc_save"]
                  /\ UNCHANGED <<disk, frame>>
             ELSE /\ pc' = [pc EXCEPT ![t] = "cc_install"]
                  /\ disk' = [disk EXCEPT ![c] = MakeDirs(@)]
                  /\ frame' = [frame EXCEPT ![t].em =
                                  LoadOrInitEmb(disk[c], NoEmb)]
    /\ UNCHANGED <<emb, lockOwner, lockId, nops>>
    /\ History(t)
    /\ UNCHANGED <<admVars, tenVars, auxVars>>

\* load_or_init line 139: self._emb[key] = em
CcInstall(t) ==
    /\ pc[t] = "cc_install"
    /\ emb' = [emb EXCEPT ![frame[t].c] = frame[t].em]
    /\ frame' = [frame EXCEPT ![t].em = NoEmb]
    /\ pc' = [pc EXCEPT ![t] = "cc_save"]
    /\ UNCHANGED <<disk, lockOwner, lockId, nops>>
    /\ History(t)
    /\ UNCHANGED <<admVars, tenVars, auxVars>>

\* store.save(tenant, name); return {"ok": True, ...}
CcSave(t) ==
    /\ pc[t] = "cc_save"
    /\ LET c == frame[t].c
       IN  disk' = [disk EXCEPT ![c] = SaveIdx(@, emb[c])]
    /\ frame' = [frame EXCEPT ![t] = Returned(@, "ok")]
    /\ pc' = [pc EXCEPT ![t] = "done"]
    /\ UNCHANGED <<emb, lockOwner, lockId, nops>>
    /\ History(t)
    /\ UNCHANGED <<admVars, tenVars, auxVars>>

\* ------------------------------------------- TxtaiStore.rename_collection
\* service.rename_collection lines 72-78 and store lines 162-163
CallRename(t, In, B) ==
    \E c \in In.cs, c2 \in In.cs :
        IF c = c2
          THEN /\ StartCall(t, Returned([Frame0 EXCEPT
                       !.op = "rename_collection", !.c = c, !.c2 = c2],
                       "rename_invalid"), "done", B)
          ELSE /\ StartCall(t, [Frame0 EXCEPT !.op = "rename_collection",
                                    !.c = c, !.c2 = c2], "rn_acq0", B)

\* the two locks taken in argument order
RenameLocksUnsorted(fr) == <<fr.c, fr.c2>>

\* locks = sorted([lock_old, lock_new], key=id)
RenameLocks(fr) ==
    IF lockId[fr.c] < lockId[fr.c2] THEN <<fr.c, fr.c2>> ELSE <<fr.c2, fr.c>>

RnAcq0(t) ==
    /\ pc[t] = "rn_acq0"
    /\ Acquire(t, RenameLocks(frame[t])[1])
    /\ pc' = [pc EXCEPT ![t] = "rn_acq1"]
    /\ UNCHANGED <<disk, emb, lockId, frame, nops>>
    /\ History(t)
    /\ UNCHANGED <<admVars, tenVars, auxVars>>

RnAcq1(t) ==
    /\ pc[t] = "rn_acq1"
    /\ Acquire(t, RenameLocks(frame[t])[2])
    /\ pc' = [pc EXCEPT ![t] = "rn_body"]
    /\ UNCHANGED <<disk, emb, lockId, frame, nops>>
    /\ History(t)
    /\ UNCHANGED <<admVars, tenVars, auxVars>>

\* the names the collections go by, word by word
Spelling(c) == IF c = "a" THEN <<"docs">> ELSE <<"does", "not", "exist">>

\* Python's "needle in haystack" on the words of two strings
Contains(s, p) ==
    \E i \in 0..(Len(s) - Len(p)) : SubSeq(s, i + 1, i + Len(p)) = p

\* store lines 177-181: the ValueError of the pre-checks, << >> if none
RenameError(dk, old, new) ==
    IF ~dk[old].exists
      THEN <<"collection">> \o Spelling(old) \o <<"does", "not", "exist">>
    ELSE IF dk[new].exists
      THEN <<"collection">> \o Spelling(new) \o <<"already", "exists">>
    ELSE << >>

\* service lines 88-109: the code is read off the message
RenameCode(err) ==
    IF Contains(err, <<"does", "not", "exist">>) THEN "collection_not_found"
    ELSE IF Contains(err, <<"already", "exists">>) THEN "collection_conflict"
    ELSE "rename_invalid"

\* lines 186-188: "if old_key in self._emb: self._emb[new_key] = ...pop(old_key)"
Rekey(em, old, new) ==
    IF em[old].loaded THEN [em EXCEPT ![new] = em[old], ![old] = NoEmb]
    ELSE em

\* lines 176-191: pre-checks, os.rename, re-key the handle, release both
RnBody(t) ==
    /\ pc[t] = "rn_body"
    /\ LET fr == frame[t]
           old == fr.c
           new == fr.c2
           err == RenameError(disk, old, new)
           res == IF err = << >> THEN "ok" ELSE RenameCode(err)
       IN  /\ disk' = IF res = "ok"
                        THEN [disk EXCEPT ![new] = disk[old], ![old] = NoDir]
                        ELSE disk
           /\ emb' = IF res = "ok" THEN Rekey(emb, old, new) ELSE emb
           /\ lockOwner' = [lockOwner EXCEPT ![old] = 0, ![new] = 0]
           /\ frame' = [frame EXCEPT ![t] = Returned(fr, res)]
    /\ pc' = [pc EXCEPT ![t] = "done"]
    /\ UNCHANGED <<lockId, nops>>
    /\ History(t)
    /\ UNCHANGED <<admVars, tenVars, auxVars>>


\* ------------------------------------------ the archive engine (service.py)
\* sorted(set(_iter_collection_lock_keys(data_dir))): the keys of the
\* collection directories found by the scan, "t_acme:c_docs" before
\* "t_acme:c_does not exist"
LockKeys(dk) ==
    (IF dk["a"].exists THEN <<"a">> ELSE <<>>)
      \o (IF dk["b"].exists THEN <<"b">> ELSE <<>>)

\* the tenant directory is there while it holds a collection
TenantDir(dk) == \E c \in Colls : dk[c].exists

ReleaseAll(owner, keys) ==
    [c \in Colls |-> IF c \in SeqToSet(keys) THEN 0 ELSE owner[c]]

\* _lock_indexes lines 354-361: the scan, before any lock is taken
ScanKeys(t, here, acq, body) ==
    /\ pc[t] = here
    /\ LET keys == LockKeys(disk)
       IN  /\ frame' = [frame EXCEPT ![t].keys = keys, ![t].held = 0]
           /\ pc' = [pc EXCEPT ![t] = IF keys = <<>> THEN body ELSE acq]
    /\ UNCHANGED <<disk, emb, lockOwner, lockId, nops>>
    /\ History(t)
    /\ UNCHANGED <<admVars, tenVars, auxVars>>

\* _lock_indexes lines 358-361: lock.acquire() of the next key
AcquireNext(t, here, body) ==
    /\ pc[t] = here
    /\ LET fr == frame[t]
       IN  /\ Acquire(t, fr.keys[fr.held + 1])
           /\ frame' = [frame EXCEPT ![t].held = fr.held + 1]
           /\ pc' = [pc EXCEPT ![t] =
                 IF fr.held + 1 = Len(fr.keys) THEN body ELSE here]
    /\ UNCHANGED <<disk, emb, lockId, nops>>
    /\ History(t)
    /\ UNCHANGED <<admVars, tenVars, auxVars>>

\* what a collection holds and what its searches draw from: catalog,
\* metadata, sidecar texts and the rows of the index once load_or_init ran
CollView(dk, em) ==
    [cat |-> dk.catalog, meta |-> dk.meta, chunks |-> dk.chunks,
     rows |-> LoadOrInitEmb(dk, em).docs]

\* the tree of data_dir and what the searches of every collection draw from
StoreView(dk, em) ==
    [tree |-> dk, views |-> [c \in Colls |-> CollView(dk[c], em[c])]]

\* service.dump_archive(store, data_dir)
CallDump(t, Hist, B) ==
    StartCall(t, [Frame0 EXCEPT !.op = "dump_archive",
                      !.before = IF Hist THEN <<StoreView(disk, emb)>>
                                 ELSE <<>>],
              "da_scan", B)

DaScan(t) == ScanKeys(t, "da_scan", "da_acq", "da_list")

DaAcquire(t) == AcquireNext(t, "da_acq", "da_list")

\* _write_zip: os.walk lists the collection directories of the tenant
DaList(t) ==
    /\ pc[t] = "da_list"
    /\ LET todo == LockKeys(disk)
       IN  /\ frame' = [frame EXCEPT ![t].todo = todo]
           /\ pc' = [pc EXCEPT ![t] =
                 IF todo = <<>> THEN "da_release" ELSE "da_visit"]
    /\ UNCHANGED <<disk, emb, lockOwner, lockId, nops>>
    /\ History(t)
    /\ UNCHANGED <<admVars, tenVars, auxVars>>

\* _write_zip: the walk reaches one collection directory and writes what it
\* finds there; the write may fail
DaVisit(t, Faults) ==
    /\ pc[t] = "da_visit"
    /\ LET fr == frame[t]
           c  == Head(fr.todo)
       IN  \E fail \in Faults :
             IF fail
               THEN /\ frame' = [frame EXCEPT ![t].zip = NoZip,
                           ![t].todo = <<>>, ![t].res = "archive_dump_failed"]
                    /\ pc' = [pc EXCEPT ![t] = "da_release"]
               ELSE /\ frame' = [frame EXCEPT ![t].zip[c] = ZipDir(disk[c]),
                                              ![t].todo = Tail(fr.todo)]
                    /\ pc' = [pc EXCEPT ![t] =
                          IF Tail(fr.todo) = <<>> THEN "da_release"
                          ELSE "da_visit"]
    /\ UNCHANGED <<disk, emb, lockOwner, lockId, nops>>
    /\ History(t)
    /\ UNCHANGED <<admVars, tenVars, auxVars>>

\* _lock_indexes lines 363-366: the locks go back in reverse order
DaRelease(t) ==
    /\ pc[t] = "da_release"
    /\ lockOwner' = ReleaseAll(lockOwner, frame[t].keys)
    /\ frame' = [frame EXCEPT ![t].res =
                    IF @ = "none" THEN "ok" ELSE @,
                              ![t].keys = <<>>, ![t].held = 0]
    /\ pc' = [pc EXCEPT ![t] = "done"]
    /\ UNCHANGED <<disk, emb, lockId, nops>>
    /\ History(t)
    /\ UNCHANGED <<admVars, tenVars, auxVars>>

\* the archives a caller has at hand: the one a dump_archive returned
Dumped(u) ==
    IF pc[u] = "done" /\ frame[u].op = "dump_archive" /\ frame[u].res = "ok"
      THEN {[zip |-> TRUE, names |-> {}, tree |-> frame[u].zip,
             src |-> frame[u].before]}
      ELSE {}

\* service.restore_archive(store, data_dir, archive_bytes)
CallRestore(t, Ups, B) ==
    \E up \in Ups \cup UNION {Dumped(u) : u \in Threads} :
        StartCall(t, [Frame0 EXCEPT !.op = "restore_archive", !.up = up],
                  "ra_extract", B)

\* lines 423-431 and the handler lines 357-370: ZipFile() raises BadZipFile
\* on bytes that are no ZIP, _validate_zip_members raises ValueError
RaExtract(t) ==
    /\ pc[t] = "ra_extract"
    /\ LET fr == frame[t]
           res == IF ~fr.up.zip THEN "archive_restore_failed"
                  ELSE IF \E n \in fr.up.names : ~MemberOk(n)
                    THEN "archive_invalid"
                  ELSE "none"
       IN  IF res = "none"
             THEN /\ pc' = [pc EXCEPT ![t] = "ra_scan"]
                  /\ UNCHANGED frame
             ELSE /\ pc' = [pc EXCEPT ![t] = "done"]
                  /\ frame' = [frame EXCEPT ![t].res = res]
    /\ UNCHANGED <<disk, emb, lockOwner, lockId, nops>>
    /\ History(t)
    /\ UNCHANGED <<admVars, tenVars, auxVars>>

RaScan(t) == ScanKeys(t, "ra_scan", "ra_acq", "ra_purge")

RaAcquire(t) == AcquireNext(t, "ra_acq", "ra_purge")

\* lines 434-438: every entry of data_dir is removed
RaPurge(t) ==
    /\ pc[t] = "ra_purge"
    /\ disk' = [c \in Colls |-> NoDir]
    /\ pc' = [pc EXCEPT ![t] = "ra_move"]
    /\ UNCHANGED <<emb, lockOwner, lockId, frame, nops>>
    /\ History(t)
    /\ UNCHANGED <<admVars, tenVars, auxVars>>

\* lines 440-441 and the end of _lock_indexes: shutil.move of the extracted
\* tenant directory (into the tenant directory, when one is there again),
\* then the locks go back
RaMove(t) ==
    /\ pc[t] = "ra_move"
    /\ LET tree == frame[t].up.tree
       IN  disk' = IF TenantDir(disk) /\ \E c \in Colls : tree[c].kind # "none"
                     THEN disk
                     ELSE [c \in Colls |->
                             IF tree[c].kind = "none" THEN disk[c]
                             ELSE ExtractDir(tree[c])]
    /\ lockOwner' = ReleaseAll(lockOwner, frame[t].keys)
    /\ frame' = [frame EXCEPT ![t].res = "ok", ![t].keys = <<>>,
                              ![t].held = 0]
    /\ pc' = [pc EXCEPT ![t] = "done"]
    /\ UNCHANGED <<emb, lockId, nops>>
    /\ History(t)
    /\ UNCHANGED <<admVars, tenVars, auxVars>>

\* ================================================= admission (pave/main.py)
Reqs == 1..NumReqs

Rc0 == [pc |-> "idle", kind |-> "none", resp |-> "none",
        full |-> FALSE, adm |-> FALSE, dec |-> 0]

\* app.state.max_searches / max_ingests and the executors' max_workers
MaxOf(kind) == IF kind = "search" THEN MaxSearches ELSE MaxIngests

\* the gate comparing with > instead of >=
OverloadedOffByOne(active, max) == max > 0 /\ active > max

\* "if app.state.active_searches >= max_s" (same shape for ingests)
Overloaded(active, max) == max > 0 /\ active >= max

\* a finally clause that leaves the counter alone
FinallySkipped(active, max) == active

\* the finally clause: "if max_s > 0: app.state.active_searches -= 1"
Finally(active, max) == IF max > 0 THEN active - 1 ELSE active

\* the future request r awaits
JobOf(r) == CHOOSE i \in 1..Len(jobs) : jobs[i].req = r
Remove(q, i) == SubSeq(q, 1, i - 1) \o SubSeq(q, i + 1, Len(q))

\* loop.run_in_executor(executor, fn)
Submit(r, kind) ==
    Append(jobs, [kind |-> kind, st |-> "queued", out |-> "none",
                  req |-> r, touched |-> FALSE])

\* _do_search lines 147-159: gate, increment, dispatch
SearchArrive(r) ==
    /\ rc[r].pc = "idle"
    /\ IF Overloaded(active_searches, MaxSearches)
         THEN /\ rc' = [rc EXCEPT ![r] = [Rc0 EXCEPT !.pc = "done",
                          !.kind = "search", !.resp = "search_overloaded",
                          !.full = (active_searches >= MaxSearches)]]
              /\ UNCHANGED <<active_searches, jobs>>
         ELSE /\ Len(jobs) < MaxJobs
              /\ active_searches' = active_searches + 1
              /\ jobs' = Submit(r, "search")
              /\ rc' = [rc EXCEPT ![r] = [Rc0 EXCEPT !.pc = "await",
                          !.kind = "search", !.adm = TRUE,
                          !.full = (active_searches >= MaxSearches)]]
    /\ UNCHANGED <<active_ingests, timeout_on>>
    /\ UNCHANGED <<storeVars, tenVars, auxVars>>

\* ThreadPoolExecutor: a free worker thread takes the oldest queued job
JobStart(i) ==
    /\ jobs[i].st = "queued"
    /\ \A j \in 1..(i - 1) :
          ~(jobs[j].kind = jobs[i].kind /\ jobs[j].st = "queued")
    /\ Cardinality({j \in 1..Len(jobs) :
          jobs[j].kind = jobs[i].kind /\ jobs[j].st = "running"})
            < MaxOf(jobs[i].kind)
    /\ jobs' = [jobs EXCEPT ![i].st = "running"]
    /\ UNCHANGED <<active_searches, active_ingests, timeout_on, rc>>
    /\ UNCHANGED <<storeVars, tenVars, auxVars>>

\* what the worker function ends with
Outcomes(kind) ==
    IF kind = "search" THEN {"ok", "ServiceError", "exception"}
    ELSE {"ok", "not_ok", "ServiceError", "exception"}

\* the worker returns or raises; the done-callback of an abandoned future
\* retrieves its exception and nothing else
JobFinish(i) ==
    /\ jobs[i].st = "running"
    /\ \E o \in Outcomes(jobs[i].kind) :
          jobs' = IF jobs[i].req = 0 THEN Remove(jobs, i)
                  ELSE [jobs EXCEPT ![i].st = "done", ![i].out = o]
    /\ UNCHANGED <<active_searches, active_ingests, timeout_on, rc>>
    /\ UNCHANGED <<storeVars, tenVars, auxVars>>

\* a handler that reports every failure of the worker as an overload
SearchResponseOverloaded(o) == IF o = "ok" THEN "200" ELSE "search_overloaded"

SearchResponse(o) ==
    IF o = "ok" THEN "200"
    ELSE IF o = "ServiceError" THEN "search_failed" ELSE "unhandled"

\* _do_search lines 160-167, 177-181: the awaited future completed
SearchResume(r) ==
    /\ rc[r].pc = "await" /\ rc[r].kind = "search"
    /\ LET i == JobOf(r)
       IN  /\ jobs[i].st = "done"
           /\ rc' = [rc EXCEPT ![r].pc = "done",
                        ![r].resp = SearchResponse(jobs[i].out),
                        ![r].dec = @ + (active_searches
                                     - Finally(active_searches, MaxSearches))]
           /\ jobs' = Remove(jobs, i)
    /\ active_searches' = Finally(active_searches, MaxSearches)
    /\ UNCHANGED <<active_ingests, timeout_on>>
    /\ UNCHANGED <<storeVars, tenVars, auxVars>>

\* a timeout that cancels the worker's future
SearchTimeoutCancels(r) ==
    /\ timeout_on
    /\ rc[r].pc = "await" /\ rc[r].kind = "search"
    /\ LET i == JobOf(r)
       IN  /\ jobs[i].st # "done"
           /\ jobs' = Remove(jobs, i)
    /\ rc' = [rc EXCEPT ![r].pc = "done",
                 ![r].resp = "search_timeout",
                 ![r].dec = @ + (active_searches
                              - Finally(active_searches, MaxSearches))]
    /\ active_searches' = Finally(active_searches, MaxSearches)
    /\ UNCHANGED <<active_ingests, timeout_on>>
    /\ UNCHANGED <<storeVars, tenVars, auxVars>>

\* _do_search lines 168-176, 179-181: wait_for timed out; the shielded
\* future keeps running
SearchTimeout(r) ==
    /\ timeout_on
    /\ rc[r].pc = "await" /\ rc[r].kind = "search"
    /\ LET i == JobOf(r)
       IN  /\ jobs[i].st # "done"
           /\ jobs' = [jobs EXCEPT ![i].req = 0]
    /\ rc' = [rc EXCEPT ![r].pc = "done",
                 ![r].resp = "search_timeout",
                 ![r].dec = @ + (active_searches
                              - Finally(active_searches, MaxSearches))]
    /\ active_searches' = Finally(active_searches, MaxSearches)
    /\ UNCHANGED <<active_ingests, timeout_on>>
    /\ UNCHANGED <<storeVars, tenVars, auxVars>>

\* ingest handler lines 535-547: metadata JSON, then await file.read()
IngestArrive(r) ==
    /\ rc[r].pc = "idle"
    /\ \E metaOk \in BOOLEAN :
          rc' = [rc EXCEPT ![r] =
                   IF metaOk
                     THEN [Rc0 EXCEPT !.pc = "read", !.kind = "ingest"]
                     ELSE [Rc0 EXCEPT !.pc = "done", !.kind = "ingest",
                                      !.resp = "invalid_metadata_json"]]
    /\ UNCHANGED <<active_searches, active_ingests, timeout_on, jobs>>
    /\ UNCHANGED <<storeVars, tenVars, auxVars>>

\* ingest handler lines 549-584: size limit, gate, increment, dispatch
IngestGate(r) ==
    /\ rc[r].pc = "read"
    /\ \E tooLarge \in BOOLEAN :
        IF tooLarge
          THEN /\ rc' = [rc EXCEPT ![r].pc = "done",
                                   ![r].resp = "file_too_large"]
               /\ UNCHANGED <<active_ingests, jobs>>
        ELSE IF Overloaded(active_ingests, MaxIngests)
          THEN /\ rc' = [rc EXCEPT ![r].pc = "done",
                            ![r].resp = "ingest_overloaded",
                            ![r].full = (active_ingests >= MaxIngests)]
               /\ UNCHANGED <<active_ingests, jobs>>
          ELSE /\ Len(jobs) < MaxJobs
               /\ active_ingests' = active_ingests + 1
               /\ jobs' = Submit(r, "ingest")
               /\ rc' = [rc EXCEPT ![r].pc = "await", ![r].adm = TRUE,
                            ![r].full = (active_ingests >= MaxIngests)]
    /\ UNCHANGED <<active_searches, timeout_on>>
    /\ UNCHANGED <<storeVars, tenVars, auxVars>>

IngestResponse(o) ==
    IF o = "ok" THEN "201"
    ELSE IF o = "not_ok" THEN "ingest_failed"
    ELSE IF o = "ServiceError" THEN "invalid_csv_options" ELSE "unhandled"

\* ingest handler lines 585-610: the worker's result, then the finally clause
IngestResume(r) ==
    /\ rc[r].pc = "await" /\ rc[r].kind = "ingest"
    /\ LET i == JobOf(r)
       IN  /\ jobs[i].st = "done"
           /\ rc' = [rc EXCEPT ![r].pc = "done",
                        ![r].resp = IngestResponse(jobs[i].out),
                        ![r].dec = @ + (active_ingests
                                     - Finally(active_ingests, MaxIngests))]
           /\ jobs' = Remove(jobs, i)
    /\ active_ingests' = Finally(active_ingests, MaxIngests)
    /\ UNCHANGED <<active_searches, timeout_on>>
    /\ UNCHANGED <<storeVars, tenVars, auxVars>>

\* the response is sent; the slot takes the next request
Respond(r) ==
    /\ rc[r].pc = "done"
    /\ rc' = [rc EXCEPT ![r] = Rc0]
    /\ UNCHANGED <<active_searches, active_ingests, timeout_on, jobs>>
    /\ UNCHANGED <<storeVars, tenVars, auxVars>>

\* ============================================ TxtaiStore._sanit_sql
\* strings are sequences of characters; "NUL" stands for "\x00", "DQUOTE",
\* "BACKTICK" and "BACKSLASH" for the characters of that name
Chars == {"a", " ", "'", ";", "-", "/", "*", "NUL"}

Strings == UNION {[1..n -> Chars] : n \in 0..MaxLen}

\* str.translate(_SQL_TRANS): four characters become a space, NUL goes
RECURSIVE Translate(_)
Translate(x) ==
    IF x = <<>> THEN <<>>
    ELSE (IF Head(x) = "NUL" THEN <<>>
          ELSE IF Head(x) \in {";", "DQUOTE", "BACKTICK", "BACKSLASH"}
            THEN <<" ">>
          ELSE <<Head(x)>>) \o Translate(Tail(x))

\* where tok starts in x
Finds(x, tok) ==
    {i \in 1..(Len(x) - Len(tok) + 1) : SubSeq(x, i, i + Len(tok) - 1) = tok}

\* "if token in text: text = text.split(token, 1)[0]"
CutAt(x, tok) ==
    IF Finds(x, tok) = {} THEN x
    ELSE LET i == CHOOSE j \in Finds(x, tok) : \A k \in Finds(x, tok) : j <= k
         IN  SubSeq(x, 1, i - 1)

\* str.strip()
RECURSIVE Strip(_)
Strip(x) ==
    IF x = <<>> THEN x
    ELSE IF Head(x) = " " THEN Strip(Tail(x))
    ELSE IF x[Len(x)] = " " THEN Strip(SubSeq(x, 1, Len(x) - 1))
    ELSE x

\* text.replace("'", "''")
RECURSIVE DoubleQuotes(_)
DoubleQuotes(x) ==
    IF x = <<>> THEN <<>>
    ELSE (IF Head(x) = "'" THEN <<"'", "'">> ELSE <<Head(x)>>)
           \o DoubleQuotes(Tail(x))

\* a sanitizer that cuts at the comment tokens before it translates
SanitSqlCutFirst(x) ==
    DoubleQuotes(Strip(Translate(CutAt(CutAt(CutAt(x, <<"-", "-">>),
                                             <<"/", "*">>), <<"*", "/">>))))

\* _sanit_sql(value) with max_len = None
SanitSql(x) ==
    DoubleQuotes(Strip(CutAt(CutAt(CutAt(Translate(x), <<"-", "-">>),
                                   <<"/", "*">>), <<"*", "/">>)))

\* sanit_sql applied to the string drawn, then to its own result
SanitInit ==
    /\ arg \in Strings
    /\ val = <<>>

ApplySanit ==
    /\ Len(val) < 2
    /\ val' = Append(val, SanitSql(IF val = <<>> THEN arg ELSE val[Len(val)]))
    /\ UNCHANGED <<arg, metrics, metrics_file, saving, registry>>
    /\ UNCHANGED <<storeVars, admVars, tenVars>>

\* ================================ index_records, one record (312-355)
KeyDocid == <<"d", "o", "c", "i", "d">>
KeyDotted == <<"d", "o", "c", ".", "i", "d">>
KeyTag == <<"t", "a", "g">>
KeyText == <<"t", "e", "x", "t">>

\* _sanit_field: the characters that are alphanumeric, "_" or "-" are kept
SanitField(k) ==
    SelectSeq(k, LAMBDA ch : ch \in {"a", "c", "d", "e", "g", "i", "o", "t",
                                      "x", "_", "-"})

\* md["docid"] = docid on a dict, which keeps the position of a key it has
SetDocid(md, d) ==
    IF \E i \in 1..Len(md) : md[i].k = KeyDocid
      THEN [i \in 1..Len(md) |->
               IF md[i].k = KeyDocid THEN [k |-> KeyDocid, v |-> d]
               ELSE md[i]]
      ELSE Append(md, [k |-> KeyDocid, v |-> d])

\* _sanit_meta_dict: safe[_sanit_field(key)] = _sanit_sql(value) in the
\* order of the dict, keys that are empty or "text" once sanitized left out
SanitMetaDict(md) ==
    LET kv == [i \in 1..Len(md) |->
                  [k |-> SanitField(md[i].k), v |-> SanitSql(md[i].v)]]
        ks == {kv[i].k : i \in 1..Len(kv)} \ {<<>>, KeyText}
    IN  [x \in ks |-> kv[LastWith(kv, x)].v]

\* what index_records stores for the record (rid, text, md) of docid d
IndexOne(d, r) ==
    [rid  |-> NormRid(d, r.rid),
     text |-> r.text,
     meta |-> SanitMetaDict(SetDocid(r.meta, d))]

\* the record shapes a caller hands over: a local id, an id that already
\* carries the prefix, an id with the prefix of another docid; metadata with
\* and without a docid of its own, in either order
Rids(d) == {<<"a">>, DocPrefix(d) \o <<"a">>, DocPrefix(<<"a">>) \o <<"a">>}

MetaShapes ==
    {<<>>,
     <<[k |-> KeyTag, v |-> <<"a">>]>>,
     <<[k |-> KeyDocid, v |-> <<"a", "a">>]>>,
     <<[k |-> KeyDotted, v |-> <<"a", "a">>]>>,
     <<[k |-> KeyDocid, v |-> <<"a", "a">>],
       [k |-> KeyDotted, v |-> <<"a", "a">>]>>}

NormInit ==
    /\ arg \in UNION {[d : {s}, r : [rid : Rids(s), text : {<<"a">>},
                                     meta : MetaShapes]] :
                         s \in Strings \ {<<>>}}
    /\ val = <<>>

ApplyNorm ==
    /\ val = <<>>
    /\ val' = <<IndexOne(arg.d, arg.r)>>
    /\ UNCHANGED <<arg, metrics, metrics_file, saving, registry>>
    /\ UNCHANGED <<storeVars, admVars, tenVars>>

\* ====================================== search filters (TxtaiStore)
EndsWith(s, p) ==
    Len(s) >= Len(p) /\ SubSeq(s, Len(s) - Len(p) + 1, Len(s)) = p

\* float(x): the strings that parse as a number, and their value
IsNumber(x) == Len(x) = 1 /\ x[1] \in {"1", "2", "3"}

NumberOf(x) == IF x[1] = "1" THEN 1 ELSE IF x[1] = "2" THEN 2 ELSE 3

\* the first key of _OPS that s starts with, <<>> when there is none
FirstOp(s) ==
    IF StartsWith(s, <<">", "=">>) THEN <<">", "=">>
    ELSE IF StartsWith(s, <<"<", "=">>) THEN <<"<", "=">>
    ELSE IF StartsWith(s, <<"!", "=">>) THEN <<"!", "=">>
    ELSE IF StartsWith(s, <<">">>) THEN <<">">>
    ELSE IF StartsWith(s, <<"<">>) THEN <<"<">>
    ELSE <<>>

\* op_fn(hvn, vvn)
OpHolds(op, a, b) ==
    IF op = <<">", "=">> THEN a >= b
    ELSE IF op = <<"<", "=">> THEN a <= b
    ELSE IF op = <<"!", "=">> THEN a # b
    ELSE IF op = <<">">> THEN a > b
    ELSE a < b

\* _matches_filters.match(have, cond) for a stored string have; a value
\* that is neither a number nor an ISO date fails every comparison
Match(hv, cond) ==
    LET s  == SanitSql(cond)
        op == FirstOp(s)
    IN  IF op # <<>>
          THEN LET v == Strip(SubSeq(s, Len(op) + 1, Len(s)))
               IN  /\ IsNumber(hv) /\ IsNumber(v)
                   /\ OpHolds(op, NumberOf(hv), NumberOf(v))
        ELSE IF s = <<"*">> THEN TRUE
        ELSE IF /\ StartsWith(s, <<"*">>) /\ EndsWith(s, <<"*">>)
                /\ Contains(hv, SubSeq(s, 2, Len(s) - 1)) THEN TRUE
        ELSE IF StartsWith(s, <<"*">>) /\ EndsWith(hv, Tail(s)) THEN TRUE
        ELSE IF /\ EndsWith(s, <<"*">>)
                /\ StartsWith(hv, SubSeq(s, 1, Len(s) - 1)) THEN TRUE
        ELSE IF StartsWith(s, <<"!">>) /\ Len(s) > 1 THEN hv # Tail(s)
        ELSE hv = s

\* _split_filters: wildcards and comparisons go to the post-filter
IsExtended(v) ==
    \/ StartsWith(v, <<"*">>) \/ EndsWith(v, <<"*">>)
    \/ StartsWith(v, <<">">>) \/ StartsWith(v, <<"<">>)
    \/ StartsWith(v, <<"!", "=">>)

IsExact(v) == ~IsExtended(v)

\* pre_f: the exact and negated values of each field that has some
PreOf(f) ==
    [k \in {x \in DOMAIN f : SelectSeq(f[x], IsExact) # <<>>} |->
        SelectSeq(f[k], IsExact)]

\* pos_f: the extended values of each field that has some
PosOf(f) ==
    [k \in {x \in DOMAIN f : SelectSeq(f[x], IsExtended) # <<>>} |->
        SelectSeq(f[k], IsExtended)]

\* the WHERE clause _build_sql writes for pre_f, evaluated on one row:
\* ([k] = 'v' OR [k] <> 'w') AND ...; a row without the field fails
SqlWhere(row, pre) ==
    \A k \in DOMAIN pre :
        \E i \in 1..Len(pre[k]) :
            LET v == pre[k][i]
            IN  /\ k \in DOMAIN row
                /\ IF StartsWith(v, <<"!">>) /\ Len(v) > 1
                      THEN row[k] # SanitSql(Tail(v))
                      ELSE row[k] = SanitSql(v)

\* _matches_filters(m, pos_f)
MatchesFilters(m, pos) ==
    \A k \in DOMAIN pos :
        \E i \in 1..Len(pos[k]) : k \in DOMAIN m /\ Match(m[k], pos[k][i])

\* search: whether em.search(sql) fetches the chunk and whether the loop
\* over the fetched rows keeps it
SearchKeeps(m, f) ==
    [fetched |-> SqlWhere(m, PreOf(f)),
     kept    |-> SqlWhere(m, PreOf(f)) /\ MatchesFilters(m, PosOf(f))]

\* stored metadata and filters over the fields "name" and "size"
PartialMap(name, size) ==
    [k \in {x \in {"name", "size"} :
               (IF x = "name" THEN name ELSE size) # <<>>} |->
        IF k = "name" THEN name[1] ELSE size[1]]

Metas ==
    {PartialMap(n, s) :
        n \in {<<>>, << <<"f">> >>, << <<"b">> >>, << <<"f", "b">> >>},
        s \in {<<>>, << <<"1">> >>, << <<"2">> >>}}

NameConds == {<<"f">>, <<"!", "f">>, <<"f", "*">>, <<"*", "b">>, <<"*">>}
SizeConds == {<<"2">>, <<">", "1">>, <<"!", "=", "2">>}

Filters ==
    {PartialMap(n, s) :
        n \in {<<>>} \cup {<<l>> : l \in UNION {[1..j -> NameConds] :
                                                  j \in 1..MaxVals}},
        s \in {<<>>} \cup {<< <<v>> >> : v \in SizeConds}}

FilterInit ==
    /\ arg \in [m : Metas, f : Filters]
    /\ val = <<>>

ApplyFilter ==
    /\ val = <<>>
    /\ val' = <<SearchKeeps(arg.m, arg.f)>>
    /\ UNCHANGED <<arg, metrics, metrics_file, saving, registry>>
    /\ UNCHANGED <<storeVars, admVars, tenVars>>

\* ================================================ get_lock (lines 15-31)
Keys == {"t_acme:c_a", "t_acme:c_b"}

\* _LOCKS (0: the key is absent, else the mutex registered), the owner of
\* _LOCKS_GUARD, the mutexes made so far, each thread's position in get_lock
\* and the mutexes get_lock has returned for each key
Registry0 ==
    [locks |-> [k \in Keys |-> 0],
     guard |-> 0,
     made  |-> 0,
     at    |-> [t \in Threads |-> [pc |-> "idle", key |-> "none"]],
     got   |-> [k \in Keys |-> {}],
     calls |-> 0]

\* a thread calls get_lock(key)
GlCall(t) ==
    /\ registry.at[t].pc = "idle"
    /\ registry.calls < MaxLockCalls
    /\ \E k \in Keys :
          registry' = [registry EXCEPT !.at[t] = [pc |-> "check", key |-> k],
                                       !.calls = @ + 1]
    /\ UNCHANGED <<arg, val, metrics, metrics_file, saving>>
    /\ UNCHANGED <<storeVars, admVars, tenVars>>

\* line 27: if key not in _LOCKS
GlCheck(t) ==
    /\ registry.at[t].pc = "check"
    /\ registry' = [registry EXCEPT !.at[t].pc =
          IF registry.locks[registry.at[t].key] = 0 THEN "guard"
          ELSE "return"]
    /\ UNCHANGED <<arg, val, metrics, metrics_file, saving>>
    /\ UNCHANGED <<storeVars, admVars, tenVars>>

\* line 28: with _LOCKS_GUARD
GlGuard(t) ==
    /\ registry.at[t].pc = "guard"
    /\ registry.guard = 0
    /\ registry' = [registry EXCEPT !.guard = t, !.at[t].pc = "recheck"]
    /\ UNCHANGED <<arg, val, metrics, metrics_file, saving>>
    /\ UNCHANGED <<storeVars, admVars, tenVars>>

\* the guarded block without the second test of the key
GlRecheckSkipped(t) ==
    /\ registry.at[t].pc = "recheck"
    /\ registry' =
          [registry EXCEPT !.locks[registry.at[t].key] = registry.made + 1,
                           !.made = @ + 1,
                           !.guard = 0,
                           !.at[t].pc = "return"]
    /\ UNCHANGED <<arg, val, metrics, metrics_file, saving>>
    /\ UNCHANGED <<storeVars, admVars, tenVars>>

\* lines 29-30: the double check, _LOCKS[key] = Lock(), the guard goes back
GlRecheck(t) ==
    /\ registry.at[t].pc = "recheck"
    /\ registry' =
          IF registry.locks[registry.at[t].key] = 0
            THEN [registry EXCEPT
                     !.locks[registry.at[t].key] = registry.made + 1,
                     !.made = @ + 1,
                     !.guard = 0,
                     !.at[t].pc = "return"]
            ELSE [registry EXCEPT !.guard = 0, !.at[t].pc = "return"]
    /\ UNCHANGED <<arg, val, metrics, metrics_file, saving>>
    /\ UNCHANGED <<storeVars, admVars, tenVars>>

\* line 31: return _LOCKS[key]
GlReturn(t) ==
    /\ registry.at[t].pc = "return"
    /\ LET k == registry.at[t].key
       IN  registry' = [registry EXCEPT
              !.got[k] = @ \cup {registry.locks[k]},
              !.at[t] = [pc |-> "idle", key |-> "none"]]
    /\ UNCHANGED <<arg, val, metrics, metrics_file, saving>>
    /\ UNCHANGED <<storeVars, admVars, tenVars>>

\* ------------------------------------- search: top-k selection (577-624)
\* "fetch_k = max(50, kk * 5)"
FetchFloor == 50
OverFetch == 5

search_kk(k) == Max(1, k)

FetchKNoFloor(kk) == kk * OverFetch

FetchK(kk) == Max(FetchFloor, kk * OverFetch)

\* em.search(sql): the rows of the engine, in its order, cut by the LIMIT
\* that _build_sql appends; a row is its id, 0 for a row without an id
EngineSearch(rows, limit) == SubSeq(rows, 1, Min(limit, Len(rows)))

\* _load_meta: the metadata kept beside the index, by chunk id; id 4 has none
SearchMeta(rid) ==
    IF rid = 1 THEN [name |-> <<"f">>]
    ELSE IF rid = 2 THEN [name |-> <<"b">>]
    ELSE IF rid = 3 THEN [name |-> <<"f", "b">>]
    ELSE <<>>

\* the extended part of the filter {"name": "f*"}
SearchPos == PosOf([name |-> << <<"f", "*">> >>])

\* the loop over the triples: rows without id are skipped, a row that passes
\* the post-filter is kept, and the loop breaks at kk kept rows
RECURSIVE KeepLoop(_, _, _, _)
KeepLoop(triples, i, kept, kk) ==
    IF i > Len(triples) THEN kept
    ELSE IF triples[i] = 0 THEN KeepLoop(triples, i + 1, kept, kk)
    ELSE IF MatchesFilters(SearchMeta(triples[i]), SearchPos)
         THEN IF Len(kept) + 1 >= kk THEN Append(kept, triples[i])
              ELSE KeepLoop(triples, i + 1, Append(kept, triples[i]), kk)
         ELSE KeepLoop(triples, i + 1, kept, kk)

StoreSearch(rows, k) ==
    LET kk == search_kk(k)
        fetch_k == FetchK(kk)
    IN  [fetch_k |-> fetch_k,
         out |-> KeepLoop(EngineSearch(rows, fetch_k), 1, <<>>, kk)]

\* engine rows: a run of rows that are not kept (without id, or with
\* metadata that fails the filter), then up to MaxTail rows of any kind
RowRuns ==
    {[i \in 1..n |-> x] : n \in {0, FetchFloor - 2, FetchFloor}, x \in {0, 2}}

RowTails == UNION {[1..n -> 0..4] : n \in 0..MaxTail}

TopKInit ==
    /\ arg \in [k : {0 - 1, 0, 1, 2, 11},
                rows : {r \o t : r \in RowRuns, t \in RowTails}]
    /\ val = <<>>

ApplySearch ==
    /\ val = <<>>
    /\ val' = <<StoreSearch(arg.rows, arg.k)>>
    /\ UNCHANGED <<arg, metrics, metrics_file, saving, registry>>
    /\ UNCHANGED <<storeVars, admVars, tenVars>>

\* ------------------------------ _split_filters on raw keys (lines 437-468)
\* a filter mapping is the sequence of its items, in the order of the dict
\* "pre_f[safe_key] = exacts" for every item that has exact values: a later
\* item with the same sanitized key replaces the earlier one
SplitPre(fl) ==
    LET kv == SelectSeq([i \in 1..Len(fl) |->
                            [k |-> SanitField(fl[i].k),
                             v |-> SelectSeq(fl[i].vals, IsExact)]],
                        LAMBDA p : p.k # <<>> /\ p.v # <<>>)
    IN  [x \in {kv[i].k : i \in 1..Len(kv)} |-> kv[LastWith(kv, x)].v]

\* "pos_f[safe_key] = extended"
SplitPos(fl) ==
    LET kv == SelectSeq([i \in 1..Len(fl) |->
                            [k |-> SanitField(fl[i].k),
                             v |-> SelectSeq(fl[i].vals, IsExtended)]],
                        LAMBDA p : p.k # <<>> /\ p.v # <<>>)
    IN  [x \in {kv[i].k : i \in 1..Len(kv)} |-> kv[LastWith(kv, x)].v]

\* raw keys: "tag", "ta.g" (sanitized to "tag") and "." (sanitized to "")
KeyTagDotted == <<"t", "a", ".", "g">>
RawKeys == {KeyTag, KeyTagDotted, <<".">>}

SplitConds == {<<"f">>, <<"!", "f">>, <<"f", "*">>, <<">", "1">>,
               <<"!", "=", "2">>}

FilterItems ==
    [k : RawKeys, vals : UNION {[1..n -> SplitConds] : n \in 1..MaxVals}]

\* the filter mappings of one item, and of two items with distinct keys, the
\* second with one value
FilterMaps ==
    {<<p>> : p \in FilterItems}
      \cup UNION {{<<p, [k |-> x, vals |-> <<v>>]>> :
                      x \in RawKeys \ {p.k}, v \in SplitConds} :
                  p \in FilterItems}

SplitInit ==
    /\ arg \in FilterMaps
    /\ val = <<>>

ApplySplit ==
    /\ val = <<>>
    /\ val' = <<[pre |-> SplitPre(arg), pos |-> SplitPos(arg)]>>
    /\ UNCHANGED <<arg, metrics, metrics_file, saving, registry>>
    /\ UNCHANGED <<storeVars, admVars, tenVars>>

\* ====================================================== pave/metrics.py
\* the counters metrics.py declares, and the names the service increments
Declared ==
    {"requests_total", "collections_created_total",
     "collections_deleted_total", "documents_indexed_total",
     "documents_deleted_total", "chunks_indexed_total", "purge_total",
     "search_total", "errors_total"}

Incremented == {"search_total", "matches_total"}

LatencyOps == {"search", "ingest"}

\* the module state of a fresh process
Metrics0 ==
    [counters   |-> [n \in Declared |-> 0],
     last_error |-> "null",
     latencies  |-> [op \in LatencyOps |-> <<>>],
     dirty      |-> FALSE]

\* no metrics.json in data_dir
NoMetricsFile == [exists |-> FALSE, counters |-> EmptyMap,
                  last_error |-> "null", latencies |-> EmptyMap]

\* deque(maxlen = _LATENCY_WINDOW).append and samples[-_LATENCY_WINDOW:]
LastN(s, n) == IF Len(s) <= n THEN s ELSE SubSeq(s, Len(s) - n + 1, Len(s))

\* inc(name, value)
Inc(name, value) ==
    /\ Get(metrics.counters, name, 0) + value <= MaxCount
    /\ metrics' = [metrics EXCEPT
          !.counters = Put(@, name, Get(@, name, 0) + value),
          !.dirty = TRUE]
    /\ UNCHANGED <<arg, val, metrics_file, saving, registry>>
    /\ UNCHANGED <<storeVars, admVars, tenVars>>

\* set_error(msg)
SetError(msg) ==
    /\ metrics.counters["errors_total"] < MaxCount
    /\ metrics' = [metrics EXCEPT
          !.last_error = msg,
          !.counters = Put(@, "errors_total", Get(@, "errors_total", 0) + 1),
          !.dirty = TRUE]
    /\ UNCHANGED <<arg, val, metrics_file, saving, registry>>
    /\ UNCHANGED <<storeVars, admVars, tenVars>>

\* record_latency(op, duration_ms)
RecordLatency(op, ms) ==
    /\ metrics' = [metrics EXCEPT
          !.latencies = Put(@, op, LastN(Append(Get(@, op, <<>>), ms),
                                         LatencyWindow)),
          !.dirty = TRUE]
    /\ UNCHANGED <<arg, val, metrics_file, saving, registry>>
    /\ UNCHANGED <<storeVars, admVars, tenVars>>

\* flush(): save() when something changed since the last save
Flush ==
    /\ metrics.dirty
    /\ metrics_file' = [exists |-> TRUE, counters |-> metrics.counters,
                        last_error |-> metrics.last_error,
                        latencies |-> metrics.latencies]
    /\ metrics' = [metrics EXCEPT !.dirty = FALSE]
    /\ UNCHANGED <<arg, val, saving, registry>>
    /\ UNCHANGED <<storeVars, admVars, tenVars>>

\* load() into the module state m of a process
Load(m, file) ==
    IF ~file.exists THEN m
    ELSE [counters   |-> [n \in DOMAIN m.counters |->
                            IF n \in DOMAIN file.counters
                              THEN file.counters[n] ELSE m.counters[n]],
          last_error |-> file.last_error,
          latencies  |-> [op \in DOMAIN m.latencies \cup DOMAIN file.latencies
                            |-> IF op \in DOMAIN file.latencies
                                  THEN LastN(file.latencies[op], LatencyWindow)
                                  ELSE m.latencies[op]],
          dirty      |-> m.dirty]

\* a fresh process starts: set_data_dir(path) calls load()
Startup ==
    /\ metrics' = Load(Metrics0, metrics_file)
    /\ UNCHANGED <<arg, val, metrics_file, saving, registry>>
    /\ UNCHANGED <<storeVars, admVars, tenVars>>

\* no save() is in progress
NoSaving == [t \in Threads |-> [pc |-> "idle", data |-> NoMetricsFile]]

\* ---------------------------- save, flush and reset by concurrent threads
\* what json.dump writes for the module state m
FileOf(m) == [exists |-> TRUE, counters |-> m.counters,
              last_error |-> m.last_error, latencies |-> m.latencies]

\* flush(): "if _dirty: save()", the flag read without the lock
FlushCall(t) ==
    /\ saving[t].pc = "idle"
    /\ metrics.dirty
    /\ saving' = [saving EXCEPT ![t].pc = "save"]
    /\ UNCHANGED <<arg, val, metrics, metrics_file, registry>>
    /\ UNCHANGED <<storeVars, admVars, tenVars>>

\* flush() that finds the flag false returns
FlushClean(t) ==
    /\ saving[t].pc = "idle"
    /\ ~metrics.dirty
    /\ UNCHANGED <<arg, val, metrics, metrics_file, saving, registry>>
    /\ UNCHANGED <<storeVars, admVars, tenVars>>

\* reset(): zeroes the state under _lock, then calls save()
ResetCall(t) ==
    /\ saving[t].pc = "idle"
    /\ metrics' = [metrics EXCEPT
          !.counters = [n \in DOMAIN @ |-> 0],
          !.last_error = "null",
          !.latencies = [op \in DOMAIN @ |-> <<>>]]
    /\ saving' = [saving EXCEPT ![t].pc = "save"]
    /\ UNCHANGED <<arg, val, metrics_file, registry>>
    /\ UNCHANGED <<storeVars, admVars, tenVars>>

\* save(), "with _lock": the snapshot is taken and _dirty set to False
SaveSnapshot(t) ==
    /\ saving[t].pc = "save"
    /\ saving' = [saving EXCEPT ![t] = [pc |-> "write",
                                         data |-> FileOf(metrics)]]
    /\ metrics' = [metrics EXCEPT !.dirty = FALSE]
    /\ UNCHANGED <<arg, val, metrics_file, registry>>
    /\ UNCHANGED <<storeVars, admVars, tenVars>>

\* save(), after the lock is released: the temp file is written and
\* os.replace puts it in the place of metrics.json
SaveWrite(t) ==
    /\ saving[t].pc = "write"
    /\ metrics_file' = saving[t].data
    /\ saving' = [saving EXCEPT ![t] = [pc |-> "idle",
                                         data |-> NoMetricsFile]]
    /\ UNCHANGED <<arg, val, metrics, registry>>
    /\ UNCHANGED <<storeVars, admVars, tenVars>>

\* nothing under test outside the store
AuxInit ==
    /\ arg = <<>> /\ val = <<>>
    /\ metrics = Metrics0 /\ metrics_file = NoMetricsFile
    /\ saving = NoSaving /\ registry = Registry0

\* ============================== per-tenant limits (pave/main.py, pave/auth.py)
Tenants == {"acme", "other"}
Limits  == 0..MaxLimit

Caller0 == [tenant |-> "none", admin |-> FALSE, held |-> FALSE,
            headers |-> EmptyMap]

\* the callers of a behaviour: their tenants and whether they are admins
AllCallers  == [ts |-> Tenants, admins |-> BOOLEAN]
UserCallers == [ts |-> Tenants, admins |-> {FALSE}]

\* every "tenants" section over Tenants
TenantConfigs ==
    {[limits |-> m, dflt |-> d] :
        m \in UNION {[S -> Limits] : S \in SUBSET Tenants}, d \in Limits}

\* one tenant capped, the others unlimited
OneCapped == {[limits |-> [t \in {"acme"} |-> MaxLimit], dflt |-> 0]}

\* build_app lines 126-141: the configured caps, the default cap, no request
\* in flight
TenantBuild(Cfgs) ==
    /\ \E cfg \in Cfgs : /\ tenant_limits = cfg.limits
                         /\ tenant_default_limit = cfg.dflt
    /\ tenant_active = [t \in Tenants |-> 0]
    /\ caller = [r \in Reqs |-> Caller0]

\* a configuration without a "tenants" section
NoTenants ==
    /\ tenant_limits = EmptyMap
    /\ tenant_default_limit = 0
    /\ tenant_active = [t \in Tenants |-> 0]
    /\ caller = [r \in Reqs |-> Caller0]

\* the cap of tenant t: its own entry, else the default
TenantLimit(t) == Get(tenant_limits, t, tenant_default_limit)

\* the headers of a 429 tenant_rate_limited
TenantHeaders == [XRateLimitRemaining |-> 0, RetryAfter |-> 1]

\* a comparison that lets one request too many in
TenantRejectsAbove(admin, lim, act) == ~admin /\ lim > 0 /\ act > lim

\* tenant_rate_limit: admin bypasses, 0 is unlimited, else active >= limit
TenantRejects(admin, lim, act) == ~admin /\ lim > 0 /\ act >= lim

\* Depends(tenant_rate_limit) of a handler: runs before the handler's body
TenantGate(r, Who, B) ==
    /\ rc[r].pc = "new"
    /\ nops < B /\ nops' = nops + 1
    /\ \E t \in Who.ts, admin \in Who.admins :
         IF TenantRejects(admin, TenantLimit(t), tenant_active[t])
           THEN /\ rc' = [rc EXCEPT ![r] = [Rc0 EXCEPT !.pc = "done",
                                        !.resp = "tenant_rate_limited"]]
                /\ caller' = [caller EXCEPT ![r] =
                      [tenant |-> t, admin |-> admin, held |-> FALSE,
                       headers |-> TenantHeaders]]
                /\ UNCHANGED tenant_active
           ELSE /\ rc' = [rc EXCEPT ![r] = Rc0]
                /\ caller' = [caller EXCEPT ![r] =
                      [tenant |-> t, admin |-> admin, held |-> ~admin,
                       headers |-> EmptyMap]]
                /\ tenant_active' =
                      IF admin THEN tenant_active
                      ELSE [tenant_active EXCEPT ![t] = @ + 1]
    /\ UNCHANGED <<tenant_limits, tenant_default_limit>>
    /\ UNCHANGED <<active_searches, active_ingests, timeout_on, jobs>>
    /\ UNCHANGED <<disk, emb, lockOwner, lockId, pc, frame, track, purged>>
    /\ UNCHANGED auxVars

\* the request completes: its tenant's count goes down, the slot takes the
\* next request
TenantRespond(r) ==
    /\ rc[r].pc = "done"
    /\ rc' = [rc EXCEPT ![r] = [Rc0 EXCEPT !.pc = "new"]]
    /\ tenant_active' =
          IF caller[r].held
            THEN [tenant_active EXCEPT ![caller[r].tenant] = @ - 1]
            ELSE tenant_active
    /\ caller' = [caller EXCEPT ![r] = Caller0]
    /\ UNCHANGED <<tenant_limits, tenant_default_limit>>
    /\ UNCHANGED <<active_searches, active_ingests, timeout_on, jobs>>
    /\ UNCHANGED <<storeVars, auxVars>>

\* list_collections: a handler behind the tenant gate that needs no executor
ListCollections(r) ==
    /\ rc[r].pc = "idle"
    /\ \E resp \in {"200", "list_collections_failed"} :
          rc' = [rc EXCEPT ![r].pc = "done", ![r].kind = "list",
                           ![r].resp = resp]
    /\ UNCHANGED <<active_searches, active_ingests, timeout_on, jobs>>
    /\ UNCHANGED <<storeVars, tenVars, auxVars>>

\* the worker function reaches the store: TxtaiStore.search takes the
\* collection lock and calls load_or_init; ingest_document calls has_doc
JobTouch(i) ==
    /\ jobs[i].st = "running" /\ ~jobs[i].touched
    /\ jobs' = [jobs EXCEPT ![i].touched = TRUE]
    /\ UNCHANGED <<active_searches, active_ingests, timeout_on, rc>>
    /\ UNCHANGED <<storeVars, tenVars, auxVars>>

\* ================================================================ behaviours
LockIds == {f \in [Colls -> 1..Cardinality(Colls)] :
               \A x, y \in Colls : x # y => f[x] # f[y]}

\* the order of the addresses where no call sorts by them
LockId0 == [c \in Colls |-> IF c = "a" THEN 1 ELSE 2]

StoreInit ==
    /\ disk = [c \in Colls |-> NoDir]
    /\ emb = [c \in Colls |-> NoEmb]
    /\ lockOwner = [c \in Colls |-> 0]
    /\ pc = [t \in Threads |-> "idle"]
    /\ frame = [t \in Threads |-> Frame0]
    /\ nops = 0
    /\ purged = {}

AdmInit ==
    /\ active_searches = 0
    /\ active_ingests = 0
    /\ rc = [r \in Reqs |-> Rc0]
    /\ jobs = <<>>

Init ==
    /\ StoreInit /\ lockId \in LockIds
    /\ AdmInit /\ NoTenants /\ timeout_on = FALSE /\ track = FALSE
    /\ AuxInit

\* the store under concurrent callers; the engine may raise in upsert/delete
Next ==
    \E t \in Threads :
        \/ CallIngest(t, AllIn, MaxOps)
        \/ CallDeleteDocument(t, AllIn, MaxOps)
        \/ CallPurgeDoc(t, AllIn, MaxOps)
        \/ CallIndexRecords(t, AllIn, MaxOps)
        \/ CallSearch(t, AllIn, MaxOps)
        \/ CallDeleteCollection(t, AllIn, MaxOps)
        \/ CallRename(t, AllIn, MaxOps)
        \/ IngHasDoc(t) \/ DelHasDoc(t)
        \/ PgAcquire(t) \/ PgFiles(t) \/ PgSave(t) \/ PgEngine(t, BOOLEAN)
        \/ IxAcquire(t) \/ IxPrepare(t) \/ IxSave(t) \/ IxUpsert(t, BOOLEAN)
        \/ SrAcquire(t) \/ SrQuery(t) \/ SrOut(t)
        \/ DcAcquire(t) \/ DcBody(t)
        \/ RnAcq0(t) \/ RnAcq1(t) \/ RnBody(t)

Spec == Init /\ [][Next]_vars

\* the store's locking under every operation, on one docid and one file
LockNext ==
    \E t \in Threads :
        \/ CallIngest(t, LockIn, MaxLockOps)
        \/ CallDeleteDocument(t, LockIn, MaxLockOps)
        \/ CallPurgeDoc(t, LockIn, MaxLockOps)
        \/ CallIndexRecords(t, LockIn, MaxLockOps)
        \/ CallSearch(t, LockIn, MaxLockOps)
        \/ CallDeleteCollection(t, LockIn, MaxLockOps)
        \/ CallRename(t, LockIn, MaxLockOps)
        \/ IngHasDoc(t) \/ DelHasDoc(t)
        \/ PgAcquire(t) \/ PgFiles(t) \/ PgSave(t) \/ PgEngine(t, BOOLEAN)
        \/ IxAcquire(t) \/ IxPrepare(t) \/ IxSave(t) \/ IxUpsert(t, BOOLEAN)
        \/ SrAcquire(t) \/ SrQuery(t) \/ SrOut(t)
        \/ DcAcquire(t) \/ DcBody(t)
        \/ RnAcq0(t) \/ RnAcq1(t) \/ RnBody(t)

SpecLock == Init /\ [][LockNext]_vars

\* the request pipeline: event-loop steps and executor threads
AdmStart ==
    /\ StoreInit /\ lockId = LockId0
    /\ AdmInit /\ NoTenants /\ timeout_on \in BOOLEAN /\ track = FALSE
    /\ AuxInit

AdmNext ==
    \/ \E r \in Reqs :
          \/ SearchArrive(r) \/ SearchResume(r) \/ SearchTimeout(r)
          \/ IngestArrive(r) \/ IngestGate(r) \/ IngestResume(r)
          \/ Respond(r)
    \/ \E i \in 1..Len(jobs) : JobStart(i) \/ JobFinish(i)

SpecAdm == AdmStart /\ [][AdmNext]_vars


\* the guarded endpoints: the tenant gate, then the handler and its worker
GateStart ==
    /\ StoreInit /\ lockId = LockId0
    /\ active_searches = 0 /\ active_ingests = 0 /\ jobs = <<>>
    /\ rc = [r \in Reqs |-> [Rc0 EXCEPT !.pc = "new"]]
    /\ TenantBuild(OneCapped) /\ timeout_on = TRUE /\ track = FALSE
    /\ AuxInit

GateNext ==
    \/ \E r \in Reqs :
          \/ TenantGate(r, UserCallers, MaxGateReqs)
          \/ SearchArrive(r) \/ SearchResume(r) \/ SearchTimeout(r)
          \/ IngestArrive(r) \/ IngestGate(r) \/ IngestResume(r)
          \/ TenantRespond(r)
    \/ \E i \in 1..Len(jobs) : JobStart(i) \/ JobTouch(i) \/ JobFinish(i)

SpecGate == GateStart /\ [][GateNext]_vars

\* the tenant gate alone, under every configuration and caller
TenantStart ==
    /\ StoreInit /\ lockId = LockId0
    /\ active_searches = 0 /\ active_ingests = 0 /\ jobs = <<>>
    /\ rc = [r \in Reqs |-> [Rc0 EXCEPT !.pc = "new"]]
    /\ TenantBuild(TenantConfigs) /\ timeout_on = FALSE /\ track = FALSE
    /\ AuxInit

TenantNext ==
    \E r \in Reqs :
        \/ TenantGate(r, AllCallers, MaxTenantReqs)
        \/ ListCollections(r)
        \/ TenantRespond(r)

SpecTenant == TenantStart /\ [][TenantNext]_vars

\* the same store with the history recorded
InitHist ==
    /\ StoreInit /\ lockId \in LockIds
    /\ AdmInit /\ NoTenants /\ timeout_on = FALSE /\ track = TRUE
    /\ AuxInit

SpecHist == InitHist /\ [][Next]_vars

\* ---------------------------------------------- calls executed one at a time
\* purge_doc, index_records and ingest_document run from call to return with
\* no other thread in between, on one collection S = [dk, em]
PurgeDocAtomic(S, d, fail) ==
    LET ids == CatGet(S.dk.catalog, d)
        dk1 == RemoveSidecars(S.dk, ids)
        dk2 == SaveCatalog(SaveMeta(dk1, Drop(S.dk.meta, SeqToSet(ids))),
                           Drop(S.dk.catalog, {d}))
        em1 == LoadOrInitEmb(dk2, S.em)
        dk3 == LoadOrInitDisk(dk2, S.em)
        em2 == EngineDelete(em1, ids, fail)
    IN  IF ids = <<>> THEN S ELSE [dk |-> SaveIdx(dk3, em2), em |-> em2]

IndexRecordsAtomic(S, d, recs) ==
    LET em1  == LoadOrInitEmb(S.dk, S.em)
        dk1  == LoadOrInitDisk(S.dk, S.em)
        prep == Normalize(d, recs)
        dk2  == WriteSidecars(dk1, prep)
        dk3  == SaveMeta(SaveCatalog(dk2, Put(dk1.catalog, d, RecordIds(prep))),
                         MetaSide(dk1.meta, prep))
        em2  == EngineUpsert(em1, prep)
    IN  IF Len(prep) = 0 THEN [dk |-> dk2, em |-> em1]
        ELSE [dk |-> SaveIdx(dk3, em2), em |-> em2]

IngestDocumentAtomic(S, d, f) ==
    LET S1 == IF has_doc(S.dk, d) THEN PurgeDocAtomic(S, d, FALSE) ELSE S
    IN  IF PreprocessRaises(f) \/ f.n = 0 THEN S1
        ELSE IndexRecordsAtomic(S1, d, IngestRecords(d, f))

EmptyStore == [dk |-> NoDir, em |-> NoEmb]

\* collection "a" after ingest_document of one two-chunk text file
Seeded == IngestDocumentAtomic(EmptyStore, DocPool[1],
                               [ext |-> "txt", n |-> MaxChunks, tag |-> "t1"])

SeededInit ==
    /\ disk = [c \in Colls |-> IF c = "a" THEN Seeded.dk ELSE NoDir]
    /\ emb = [c \in Colls |-> IF c = "a" THEN Seeded.em ELSE NoEmb]
    /\ lockOwner = [c \in Colls |-> 0]
    /\ pc = [t \in Threads |-> "idle"]
    /\ frame = [t \in Threads |-> Frame0]
    /\ nops = 0
    /\ purged = {}

\* collection "b" after ingest_document of one one-chunk text file
SeededB == IngestDocumentAtomic(EmptyStore, DocPool[3],
                                [ext |-> "txt", n |-> 1, tag |-> "t2"])

SeedOf(c) == IF c = "a" THEN Seeded ELSE SeededB

\* renames among collections that are absent, on disk only (the process was
\* restarted) or on disk and loaded, with searches, writes and deletions
RenameInit ==
    /\ disk \in [Colls -> {NoDir, Seeded.dk, SeededB.dk}]
    /\ emb \in [Colls -> {NoEmb, Seeded.em, SeededB.em}]
    /\ \A c \in Colls :
          /\ disk[c] \in {NoDir, SeedOf(c).dk}
          /\ emb[c] \in {NoEmb, SeedOf(c).em}
          /\ emb[c].loaded => disk[c].exists
    /\ lockOwner = [c \in Colls |-> 0]
    /\ pc = [t \in Threads |-> "idle"]
    /\ frame = [t \in Threads |-> Frame0]
    /\ nops = 0
    /\ purged = {}
    /\ lockId \in LockIds
    /\ AdmInit /\ NoTenants /\ timeout_on = FALSE /\ track = FALSE
    /\ AuxInit

RenameNext ==
    \E t \in Threads :
        \/ CallRename(t, LockIn, MaxRenameOps)
        \/ CallSearch(t, LockIn, MaxRenameOps)
        \/ CallIndexRecords(t, LockIn, MaxRenameOps)
        \/ CallDeleteCollection(t, LockIn, MaxRenameOps)
        \/ RnAcq0(t) \/ RnAcq1(t) \/ RnBody(t)
        \/ SrAcquire(t) \/ SrQuery(t) \/ SrOut(t)
        \/ IxAcquire(t) \/ IxPrepare(t) \/ IxSave(t) \/ IxUpsert(t, {FALSE})
        \/ DcAcquire(t) \/ DcBody(t)

SpecRename == RenameInit /\ [][RenameNext]_vars

\* renames racing each other, deletions and purges
RaceInit ==
    /\ SeededInit /\ lockId \in LockIds
    /\ AdmInit /\ NoTenants /\ timeout_on = FALSE /\ track = FALSE
    /\ AuxInit

\* the steps of thread t inside a call: the scheduler runs every thread that
\* is not suspended in lock.acquire()
RaceSteps(t) ==
    \/ RnAcq0(t) \/ RnAcq1(t) \/ RnBody(t)
    \/ PgAcquire(t) \/ PgFiles(t) \/ PgSave(t) \/ PgEngine(t, {FALSE})
    \/ DcAcquire(t) \/ DcBody(t)

RaceNext ==
    \E t \in Threads :
        \/ CallRename(t, LockIn, MaxRenameOps)
        \/ CallDeleteCollection(t, LockIn, MaxRenameOps)
        \/ CallPurgeDoc(t, LockIn, MaxRenameOps)
        \/ RnAcq0(t) \/ RnAcq1(t) \/ RnBody(t)
        \/ PgAcquire(t) \/ PgFiles(t) \/ PgSave(t) \/ PgEngine(t, {FALSE})
        \/ DcAcquire(t) \/ DcBody(t)

SpecRace ==
    RaceInit /\ [][RaceNext]_vars /\ \A t \in Threads : WF_vars(RaceSteps(t))

\* the trees of the uploaded archives: empty, "a" alone, "a" and "b"
Trees ==
    {NoZip,
     [c \in Colls |-> IF c = "a" THEN ZipDir(Seeded.dk) ELSE NoZDir],
     [c \in Colls |-> ZipDir(SeedOf(c).dk)]}

\* the uploads: bytes that are no ZIP, ZIPs with one extra member, plain ZIPs
Uploads ==
    {NoUpload}
      \cup {[zip |-> TRUE, names |-> {n}, tree |-> tr, src |-> <<>>] :
               n \in MemberNames, tr \in {NoZip}}
      \cup {[zip |-> TRUE, names |-> {}, tree |-> tr, src |-> <<>>] :
               tr \in Trees}

\* dump_archive and restore_archive next to searches, writes and renames
ArchiveNext ==
    \E t \in Threads :
        \/ CallDump(t, FALSE, MaxArchiveOps)
        \/ CallRestore(t, Uploads, MaxArchiveOps)
        \/ CallSearch(t, LockIn, MaxArchiveOps)
        \/ CallIndexRecords(t, LockIn, MaxArchiveOps)
        \/ CallRename(t, LockIn, MaxArchiveOps)
        \/ DaScan(t) \/ DaAcquire(t) \/ DaList(t) \/ DaVisit(t, BOOLEAN)
        \/ DaRelease(t)
        \/ RaExtract(t) \/ RaScan(t) \/ RaAcquire(t) \/ RaPurge(t)
        \/ RaMove(t)
        \/ SrAcquire(t) \/ SrQuery(t) \/ SrOut(t)
        \/ IxAcquire(t) \/ IxPrepare(t) \/ IxSave(t) \/ IxUpsert(t, {FALSE})
        \/ RnAcq0(t) \/ RnAcq1(t) \/ RnBody(t)

SpecArchive == RenameInit /\ [][ArchiveNext]_vars

\* rename_collection next to dump_archive and restore_archive, every thread
\* scheduled while it is not suspended in lock.acquire()
OrderSteps(t) ==
    \/ RnAcq0(t) \/ RnAcq1(t) \/ RnBody(t)
    \/ DaScan(t) \/ DaAcquire(t) \/ DaList(t) \/ DaVisit(t, {FALSE})
    \/ DaRelease(t)
    \/ RaExtract(t) \/ RaScan(t) \/ RaAcquire(t) \/ RaPurge(t) \/ RaMove(t)

OrderNext ==
    \E t \in Threads :
        \/ CallRename(t, LockIn, MaxOrderOps)
        \/ CallDump(t, FALSE, MaxOrderOps)
        \/ CallRestore(t, {up \in Uploads : up.zip /\ up.names = {}},
                       MaxOrderOps)
        \/ RnAcq0(t) \/ RnAcq1(t) \/ RnBody(t)
        \/ DaScan(t) \/ DaAcquire(t) \/ DaList(t) \/ DaVisit(t, {FALSE})
        \/ DaRelease(t)
        \/ RaExtract(t) \/ RaScan(t) \/ RaAcquire(t) \/ RaPurge(t)
        \/ RaMove(t)

SpecOrder ==
    RenameInit /\ [][OrderNext]_vars /\ \A t \in Threads : WF_vars(OrderSteps(t))

\* the callers of load_or_init: create_collection without the collection
\* lock, index_records, purge_doc and search under it
HandleNext ==
    \E t \in Threads :
        \/ CallCreateCollection(t, LockIn, MaxCreateOps)
        \/ CallIndexRecords(t, LockIn, MaxCreateOps)
        \/ CallPurgeDoc(t, LockIn, MaxCreateOps)
        \/ CallSearch(t, LockIn, MaxCreateOps)
        \/ CcLoad(t) \/ CcInstall(t) \/ CcSave(t)
        \/ IxAcquire(t) \/ IxPrepare(t) \/ IxSave(t) \/ IxUpsert(t, {FALSE})
        \/ PgAcquire(t) \/ PgFiles(t) \/ PgSave(t) \/ PgEngine(t, {FALSE})
        \/ SrAcquire(t) \/ SrQuery(t) \/ SrOut(t)

SpecHandle == RenameInit /\ [][HandleNext]_vars

\* an archive whose collection "a" is an empty directory
EmptyTree ==
    [c \in Colls |-> IF c = "a" THEN ZipDir(MakeDirs(NoDir)) ELSE NoZDir]

\* create_collection next to writes, searches, purges and restores
CreateNext ==
    \E t \in Threads :
        \/ CallCreateCollection(t, LockIn, MaxCreateOps)
        \/ CallIndexRecords(t, LockIn, MaxCreateOps)
        \/ CallPurgeDoc(t, LockIn, MaxCreateOps)
        \/ CallSearch(t, LockIn, MaxCreateOps)
        \/ CallRestore(t, {[zip |-> TRUE, names |-> {}, tree |-> EmptyTree,
                            src |-> <<>>]}, MaxCreateOps)
        \/ CcLoad(t) \/ CcInstall(t) \/ CcSave(t)
        \/ IxAcquire(t) \/ IxPrepare(t) \/ IxSave(t) \/ IxUpsert(t, BOOLEAN)
        \/ PgAcquire(t) \/ PgFiles(t) \/ PgSave(t) \/ PgEngine(t, BOOLEAN)
        \/ SrAcquire(t) \/ SrQuery(t) \/ SrOut(t)
        \/ RaExtract(t) \/ RaScan(t) \/ RaAcquire(t) \/ RaPurge(t)
        \/ RaMove(t)

SpecCreate == RenameInit /\ [][CreateNext]_vars

\* one call at a time: deletions of documents that are there, were never
\* there or are in a collection that does not exist, and ingests
DeleteIn == [cs |-> Colls, ds |-> {DocPool[1], DocPool[2]},
             fs |-> {f \in Files : f.ext = "txt" /\ f.n = 1}]

DeleteInit ==
    /\ SeededInit /\ lockId = LockId0
    /\ AdmInit /\ NoTenants /\ timeout_on = FALSE /\ track = TRUE
    /\ AuxInit

SqDeleteDocument(t) ==
    (\A u \in Threads : Resting(u))
      /\ CallDeleteDocument(t, DeleteIn, MaxDeleteOps)

SqIngest(t) ==
    (\A u \in Threads : Resting(u)) /\ CallIngest(t, DeleteIn, MaxDeleteOps)

DeleteNext ==
    \E t \in Threads :
        \/ SqDeleteDocument(t)
        \/ SqIngest(t)
        \/ IngHasDoc(t) \/ DelHasDoc(t)
        \/ PgAcquire(t) \/ PgFiles(t) \/ PgSave(t) \/ PgEngine(t, BOOLEAN)
        \/ IxAcquire(t) \/ IxPrepare(t) \/ IxSave(t) \/ IxUpsert(t, {FALSE})

SpecDelete == DeleteInit /\ [][DeleteNext]_vars

\* the store and the request handlers at rest
Idle ==
    /\ StoreInit /\ lockId = LockId0
    /\ AdmInit /\ NoTenants /\ timeout_on = FALSE /\ track = FALSE

SanitStart ==
    /\ Idle /\ SanitInit
    /\ metrics = Metrics0 /\ metrics_file = NoMetricsFile
    /\ saving = NoSaving /\ registry = Registry0

SanitNext == ApplySanit

SpecSanit == SanitStart /\ [][SanitNext]_vars

NormStart ==
    /\ Idle /\ NormInit
    /\ metrics = Metrics0 /\ metrics_file = NoMetricsFile
    /\ saving = NoSaving /\ registry = Registry0

NormNext == ApplyNorm

SpecNorm == NormStart /\ [][NormNext]_vars

\* the metrics module across restarts of the process
MetricsStart ==
    /\ Idle
    /\ AuxInit

MetricsNext ==
    \/ \E name \in Incremented : Inc(name, 1)
    \/ SetError("boom")
    \/ \E ms \in {1, 2} : RecordLatency("search", ms)
    \/ Flush
    \/ Startup

SpecMetrics == MetricsStart /\ [][MetricsNext]_vars

\* threads mutating the metrics while others flush and reset
Mutation ==
    \/ Inc("search_total", 1)
    \/ SetError("boom")
    \/ RecordLatency("search", 1)

SaveNext ==
    \/ Inc("search_total", 1)
    \/ SetError("boom")
    \/ RecordLatency("search", 1)
    \/ \E t \in Threads : FlushCall(t)
    \/ \E t \in Threads : FlushClean(t)
    \/ \E t \in Threads : ResetCall(t)
    \/ \E t \in Threads : SaveSnapshot(t)
    \/ \E t \in Threads : SaveWrite(t)

SpecSave == MetricsStart /\ [][SaveNext]_vars

\* threads calling get_lock
RegistryNext ==
    \E t \in Threads :
        \/ GlCall(t) \/ GlCheck(t) \/ GlGuard(t) \/ GlRecheck(t)
        \/ GlReturn(t)

SpecRegistry == MetricsStart /\ [][RegistryNext]_vars

SplitStart ==
    /\ Idle /\ SplitInit
    /\ metrics = Metrics0 /\ metrics_file = NoMetricsFile
    /\ saving = NoSaving /\ registry = Registry0

SplitNext == ApplySplit

SpecSplit == SplitStart /\ [][SplitNext]_vars

TopKStart ==
    /\ Idle /\ TopKInit
    /\ metrics = Metrics0 /\ metrics_file = NoMetricsFile
    /\ saving = NoSaving /\ registry = Registry0

TopKNext == ApplySearch

SpecTopK == TopKStart /\ [][TopKNext]_vars

FilterStart ==
    /\ Idle /\ FilterInit
    /\ metrics = Metrics0 /\ metrics_file = NoMetricsFile
    /\ saving = NoSaving /\ registry = Registry0

FilterNext == ApplyFilter

SpecFilter == FilterStart /\ [][FilterNext]_vars

\* ---- one call at a time: fill the store, dump it, wipe data_dir, restore
\* no call is in flight
Quiet == \A t \in Threads : Resting(t)

\* no dump_archive has been called yet
Filling == \A t \in Threads : frame[t].op \notin {"dump_archive",
                                                   "restore_archive"}

\* a dump_archive has returned its ZIP and no restore has started
Exported == \E u \in Threads : Dumped(u) # {}

RtIndexRecords(t) ==
    Quiet /\ Filling /\ CallIndexRecords(t, LockIn, MaxRoundOps)

RtPurgeDoc(t) == Quiet /\ Filling /\ CallPurgeDoc(t, LockIn, MaxRoundOps)

RtDeleteCollection(t) ==
    Quiet /\ Filling /\ CallDeleteCollection(t, LockIn, MaxRoundOps)

RtSearch(t) == Quiet /\ Filling /\ CallSearch(t, LockIn, MaxRoundOps)

RtDump(t) == Quiet /\ Filling /\ CallDump(t, TRUE, MaxRoundOps)

\* the operator empties data_dir (shutil.rmtree, mkdir) and may leave
\* entries of their own there, as test_restore_endpoint_replaces_data_dir
\* does
Wipe ==
    /\ Quiet /\ Exported
    /\ nops < MaxRoundOps
    /\ nops' = nops + 1
    /\ disk' \in [Colls -> {NoDir, Seeded.dk, SeededB.dk}]
    /\ \A c \in Colls : disk'[c] \in {NoDir, SeedOf(c).dk}
    /\ UNCHANGED <<emb, lockOwner, lockId, pc, frame, track, purged>>
    /\ UNCHANGED <<admVars, tenVars, auxVars>>

\* the process is started again: TxtaiStore.__init__ sets _emb = {}
Restart ==
    /\ Quiet /\ Exported
    /\ nops < MaxRoundOps
    /\ nops' = nops + 1
    /\ emb' = [c \in Colls |-> NoEmb]
    /\ UNCHANGED <<disk, lockOwner, lockId, pc, frame, track, purged>>
    /\ UNCHANGED <<admVars, tenVars, auxVars>>

\* the ZIP a dump_archive produced is uploaded
RtRestore(t) == Quiet /\ Exported /\ CallRestore(t, {}, MaxRoundOps)

RoundInit ==
    /\ disk \in [Colls -> {NoDir, Seeded.dk, SeededB.dk}]
    /\ emb \in [Colls -> {NoEmb, Seeded.em, SeededB.em}]
    /\ \A c \in Colls :
          /\ disk[c] \in {NoDir, SeedOf(c).dk}
          /\ emb[c] \in {NoEmb, SeedOf(c).em}
          /\ emb[c].loaded => disk[c].exists
    /\ lockOwner = [c \in Colls |-> 0]
    /\ pc = [t \in Threads |-> "idle"]
    /\ frame = [t \in Threads |-> Frame0]
    /\ nops = 0
    /\ purged = {}
    /\ lockId = LockId0
    /\ AdmInit /\ NoTenants /\ timeout_on = FALSE /\ track = FALSE
    /\ AuxInit

RoundNext ==
    \/ Wipe
    \/ Restart
    \/ \E t \in Threads :
        \/ RtIndexRecords(t) \/ RtPurgeDoc(t) \/ RtDeleteCollection(t)
        \/ RtSearch(t) \/ RtDump(t) \/ RtRestore(t)
        \/ IxAcquire(t) \/ IxPrepare(t) \/ IxSave(t) \/ IxUpsert(t, BOOLEAN)
        \/ PgAcquire(t) \/ PgFiles(t) \/ PgSave(t) \/ PgEngine(t, BOOLEAN)
        \/ DcAcquire(t) \/ DcBody(t)
        \/ SrAcquire(t) \/ SrQuery(t) \/ SrOut(t)
        \/ DaScan(t) \/ DaAcquire(t) \/ DaList(t) \/ DaVisit(t, BOOLEAN)
        \/ DaRelease(t)
        \/ RaExtract(t) \/ RaScan(t) \/ RaAcquire(t) \/ RaPurge(t)
        \/ RaMove(t)

SpecRound == RoundInit /\ [][RoundNext]_vars

\* ---- one call at a time: index_records and purge_doc on one collection
SidecarInit ==
    /\ Idle
    /\ AuxInit

SqIndexRecords(t) == Quiet /\ CallIndexRecords(t, OneIn, MaxSidecarOps)

SqPurgeDoc(t) == Quiet /\ CallPurgeDoc(t, OneIn, MaxSidecarOps)

SidecarNext ==
    \E t \in Threads :
        \/ SqIndexRecords(t)
        \/ SqPurgeDoc(t)
        \/ PgAcquire(t) \/ PgFiles(t) \/ PgSave(t) \/ PgEngine(t, {FALSE})
        \/ IxAcquire(t) \/ IxPrepare(t) \/ IxSave(t) \/ IxUpsert(t, {FALSE})

SpecSidecar == SidecarInit /\ [][SidecarNext]_vars

\* ---- one call at a time: PDFs with blank pages are ingested
PdfIn == [cs |-> {"a"}, ds |-> DocIds, fs |-> PdfFiles]

SqIngestPdf(t) == Quiet /\ CallIngest(t, PdfIn, MaxPdfOps)

PdfNext ==
    \E t \in Threads :
        \/ SqIngestPdf(t)
        \/ IngHasDoc(t)
        \/ PgAcquire(t) \/ PgFiles(t) \/ PgSave(t) \/ PgEngine(t, {FALSE})
        \/ IxAcquire(t) \/ IxPrepare(t) \/ IxSave(t) \/ IxUpsert(t, {FALSE})

SpecPdf == SidecarInit /\ [][PdfNext]_vars

\* one call at a time: restore_archive of a plain ZIP, then searches and
\* writes
SqRestore(t) ==
    Quiet /\ CallRestore(t, {up \in Uploads : up.zip /\ up.names = {}},
                         MaxRestoreOps)

SqSearch(t) == Quiet /\ CallSearch(t, LockIn, MaxRestoreOps)

SqIndex(t) == Quiet /\ CallIndexRecords(t, LockIn, MaxRestoreOps)

RestoreNext ==
    \E t \in Threads :
        \/ SqRestore(t) \/ SqSearch(t) \/ SqIndex(t)
        \/ RaExtract(t) \/ RaScan(t) \/ RaAcquire(t) \/ RaPurge(t)
        \/ RaMove(t)
        \/ SrAcquire(t) \/ SrQuery(t) \/ SrOut(t)
        \/ IxAcquire(t) \/ IxPrepare(t) \/ IxSave(t) \/ IxUpsert(t, {FALSE})

SpecRestore == RenameInit /\ [][RestoreNext]_vars

\* the service operations of the HTTP surface on one collection, with an
\* engine that does not raise
SvcInit ==
    /\ SeededInit /\ lockId = LockId0
    /\ AdmInit /\ NoTenants /\ timeout_on = FALSE /\ track = TRUE
    /\ AuxInit

SvcNext ==
    \E t \in Threads :
        \/ CallIngest(t, OneIn, MaxSvcOps)
        \/ CallDeleteDocument(t, OneIn, MaxSvcOps)
        \/ CallSearch(t, OneIn, MaxSvcOps)
        \/ IngHasDoc(t) \/ DelHasDoc(t)
        \/ PgAcquire(t) \/ PgFiles(t) \/ PgSave(t) \/ PgEngine(t, {FALSE})
        \/ IxAcquire(t) \/ IxPrepare(t) \/ IxSave(t) \/ IxUpsert(t, {FALSE})
        \/ SrAcquire(t) \/ SrQuery(t) \/ SrOut(t)

SpecSvc == SvcInit /\ [][SvcNext]_vars

\* one call at a time, with an engine whose delete may raise
SqPurgeFault(t) == Quiet /\ CallPurgeDoc(t, OneIn, MaxFaultOps)

SqSearchFault(t) == Quiet /\ CallSearch(t, OneIn, MaxFaultOps)

FaultNext ==
    \E t \in Threads :
        \/ SqPurgeFault(t) \/ SqSearchFault(t)
        \/ PgAcquire(t) \/ PgFiles(t) \/ PgSave(t) \/ PgEngine(t, BOOLEAN)
        \/ SrAcquire(t) \/ SrQuery(t) \/ SrOut(t)

SpecFault == SvcInit /\ [][FaultNext]_vars

\* every thread makes one ingest_document call into collection "a"
CallIngestOnce(t) ==
    /\ pc[t] = "idle"
    /\ CallIngest(t, OneIn, NumThreads)

IngestNext ==
    \E t \in Threads :
        \/ CallIngestOnce(t)
        \/ IngHasDoc(t)
        \/ PgAcquire(t) \/ PgFiles(t) \/ PgSave(t) \/ PgEngine(t, {FALSE})
        \/ IxAcquire(t) \/ IxPrepare(t) \/ IxSave(t) \/ IxUpsert(t, {FALSE})

IngestInit ==
    /\ SeededInit /\ lockId = LockId0
    /\ AdmInit /\ NoTenants /\ timeout_on = FALSE /\ track = FALSE
    /\ AuxInit

SpecIngest == IngestInit /\ [][IngestNext]_vars


\* ==================================================================== claims
\* the region of each call that runs between lock.acquire and lock.release
InCS(t, c) ==
    \/ /\ pc[t] \in {"pg_files", "pg_save", "pg_engine", "ix_prepare",
                     "ix_save", "ix_upsert", "sr_query", "dc_body"}
       /\ frame[t].c = c
    \/ pc[t] = "rn_body" /\ c \in {frame[t].c, frame[t].c2}
    \/ pc[t] = "rn_acq1" /\ c = RenameLocks(frame[t])[1]

Waiting(t, c) ==
    \/ /\ pc[t] \in {"pg_acquire", "ix_acquire", "sr_acquire", "dc_acquire"}
       /\ frame[t].c = c
    \/ pc[t] = "rn_acq0" /\ c = RenameLocks(frame[t])[1]
    \/ pc[t] = "rn_acq1" /\ c = RenameLocks(frame[t])[2]

\* C1: for every collection at most one thread is inside the critical
\* section of index_records, purge_doc, delete_collection, rename_collection
\* (old or new name) or the engine-query section of search.
C1_MutualExclusion ==
    \A c \in Colls : \A t, u \in Threads :
        t # u => ~(InCS(t, c) /\ InCS(u, c))

\* C1 witness: one thread is inside a critical section of a collection while
\* another one waits for the lock of the same collection.
C1_Witness ==
    \E c \in Colls : \E t, u \in Threads :
        t # u /\ InCS(t, c) /\ Waiting(u, c)

\* ingest_document of t has purged the old chunks of its docid and its
\* index_records has not returned yet
Replacing(t) ==
    /\ frame[t].op = "ingest_document"
    /\ frame[t].cnt > 0
    /\ pc[t] \in {"ix_acquire", "ix_prepare", "ix_save", "ix_upsert"}

\* C2: while ingest_document replaces an existing docid, between its purge
\* and the end of its indexing, no other thread is inside a critical section
\* of that collection (purge and index happen under one hold of the lock).
C2_AtomicReplace ==
    \A t, u \in Threads :
        (t # u /\ Replacing(t)) => ~InCS(u, frame[t].c)

EngineDocs(c) == LoadOrInitEmb(disk[c], emb[c]).docs

CatalogConsistent(c) ==
    /\ \A d \in DOMAIN disk[c].catalog :
          /\ SeqToSet(disk[c].catalog[d])
                = {u \in DOMAIN disk[c].meta : disk[c].meta[u].docid = d}
          /\ SeqToSet(disk[c].catalog[d])
                = {u \in DOMAIN EngineDocs(c) : EngineDocs(c)[u].docid = d}
    /\ \A u \in DOMAIN disk[c].meta :
          Cardinality({d \in DOMAIN disk[c].catalog :
                          u \in SeqToSet(disk[c].catalog[d])}) = 1

\* C3: whenever no call holds the lock of a collection, catalog[docid] lists
\* exactly the chunk ids with a metadata entry (and an engine entry) of that
\* docid, and every chunk id of the metadata map is listed under exactly one
\* docid.
C3_CatalogConsistent ==
    \A c \in Colls : lockOwner[c] = 0 => CatalogConsistent(c)

RECURSIVE SerialOutcomes(_, _)
\* the stores reachable by running the calls of the threads T one after
\* another, in every order
SerialOutcomes(S, T) ==
    IF T = {} THEN {S}
    ELSE UNION {SerialOutcomes(
                   IngestDocumentAtomic(S, frame[t].d, frame[t].f), T \ {t})
                : t \in T}

\* C4: after concurrent ingest_document calls on one collection have all
\* returned, catalog, metadata, sidecars and engine equal the result of
\* running those calls one after another in some order.
C4_Serializable ==
    (\A t \in Threads : pc[t] = "done")
        => [dk |-> disk["a"], em |-> emb["a"]]
              \in SerialOutcomes(Seeded, Threads)

\* C5: once purge_doc or delete_document of docid D has returned, and until D
\* is ingested again, has_doc is false and, whenever the lock is free for a
\* search to query the engine, the engine holds no id starting with "D::".
C5_PurgePostcondition ==
    \A p \in purged :
        /\ ~has_doc(disk[p[1]], p[2])
        /\ lockOwner[p[1]] = 0 =>
              \A u \in DOMAIN EngineDocs(p[1]) :
                  ~StartsWith(u, DocPrefix(p[2]))

\* what the four stores hold for d after ingesting file f and nothing else
ViewOf(d, f) ==
    LET ids == IF PreprocessRaises(f) THEN {}
               ELSE {Urid(d, i) : i \in 0..(f.n - 1)}
    IN  [cat  |-> ids,
         meta |-> {<<u, f.tag>> : u \in ids},
         side |-> {<<UridToFname(u), f.tag>> : u \in ids},
         eng  |-> {<<u, f.tag>> : u \in ids}]

\* thread t made all the calls so far, one after the other
Alone(t) == pc[t] = "done" /\ \A u \in Threads \ {t} : pc[u] = "idle"

\* C6: after ingest_document(D, file1) and then ingest_document(D, file2),
\* both successful and with nothing else running, catalog, metadata,
\* sidecars and engine hold for D exactly the chunks of file2.
C6_ReingestLatest ==
    \A t \in Threads :
        (/\ Alone(t)
         /\ frame[t].op = "ingest_document" /\ frame[t].res = "ok"
         /\ frame[t].prev.op = "ingest_document" /\ frame[t].prev.res = "ok"
         /\ frame[t].prev.c = frame[t].c /\ frame[t].prev.d = frame[t].d)
        => DocView(disk[frame[t].c], emb[frame[t].c], frame[t].d)
              = ViewOf(frame[t].d, frame[t].f)

\* C7: after ingest_document of D returns, with success or with an error,
\* the chunk set of D in catalog, metadata, sidecars and engine is either the
\* one before the call or the full one of the new file.
C7_NoPartialFailure ==
    \A t \in Threads :
        (Alone(t) /\ frame[t].op = "ingest_document")
        => DocView(disk[frame[t].c], emb[frame[t].c], frame[t].d)
              \in {frame[t].pre, ViewOf(frame[t].d, frame[t].f)}

\* C8: every match a search returns carries the text the collection held for
\* that chunk in the state in which the engine was queried.
C8_SearchSingleState ==
    \A t \in Threads :
        (pc[t] = "done" /\ frame[t].op = "search")
        => \A u \in DOMAIN frame[t].out :
              frame[t].out[u].text = frame[t].snap[u]

Awaiting(kind) == {r \in Reqs : rc[r].pc = "await" /\ rc[r].kind = kind}

\* C9: both admission counters stay within 0..max, and a request that
\* reaches its gate while the counter is at the cap is answered 503
\* search_overloaded / ingest_overloaded at once, without a job having been
\* submitted to the executor for it.
C9_AdmissionCaps ==
    /\ active_searches \in 0..MaxSearches
    /\ active_ingests \in 0..MaxIngests
    /\ \A r \in Reqs :
          rc[r].full =>
             /\ rc[r].pc = "done"
             /\ rc[r].resp = (IF rc[r].kind = "search"
                                THEN "search_overloaded"
                                ELSE "ingest_overloaded")
             /\ ~rc[r].adm
             /\ \A i \in 1..Len(jobs) : jobs[i].req # r

\* C9 witness: a search request was rejected while the counter was at the cap
\* and the admitted requests are still being served.
C9_Witness ==
    \E r \in Reqs :
        /\ rc[r].full /\ rc[r].resp = "search_overloaded"
        /\ active_searches = MaxSearches

\* C10: every admitted request decrements its counter exactly once, a
\* rejected one never does, the counters equal the number of requests being
\* served, and so they are zero whenever no request is in flight.
C10_CountersConverge ==
    /\ active_searches = Cardinality(Awaiting("search"))
    /\ active_ingests = Cardinality(Awaiting("ingest"))
    /\ \A r \in Reqs :
          /\ rc[r].pc = "done" => rc[r].dec = (IF rc[r].adm THEN 1 ELSE 0)
          /\ rc[r].pc # "done" => rc[r].dec = 0
    /\ (\A r \in Reqs : rc[r].pc # "await")
          => (active_searches = 0 /\ active_ingests = 0)

\* C10 witness: a search timed out, its counter is back at zero and its
\* worker is still running.
C10_Witness ==
    \E r \in Reqs :
        /\ rc[r].pc = "done" /\ rc[r].resp = "search_timeout"
        /\ rc[r].dec = 1
        /\ active_searches = 0
        /\ \E i \in 1..Len(jobs) : jobs[i].req = 0 /\ jobs[i].st = "running"

\* the workers whose request has timed out
Abandoned(q) == {i \in 1..Len(q) : q[i].req = 0}

TimesOut(r) == rc[r].resp # "search_timeout" /\ rc'[r].resp = "search_timeout"

\* what every step does about timeouts
TimeoutSteps ==
    /\ \A r \in Reqs :
          TimesOut(r) =>
             /\ timeout_on
             /\ rc[r].pc = "await" /\ rc[r].kind = "search"
             /\ jobs[JobOf(r)].st # "done"
             /\ rc'[r].pc = "done"
             /\ jobs' = [jobs EXCEPT ![JobOf(r)].req = 0]
             /\ active_searches' = active_searches - 1
    /\ Cardinality(Abandoned(jobs')) < Cardinality(Abandoned(jobs)) =>
             /\ UNCHANGED <<rc, active_searches, active_ingests>>
             /\ Len(jobs') = Len(jobs) - 1
             /\ \E i \in Abandoned(jobs) :
                   jobs[i].st = "running" /\ jobs' = Remove(jobs, i)
    /\ \A i \in Abandoned(jobs') :
          jobs'[i].kind = "search" /\ jobs'[i].st # "done"
    /\ \A r \in Reqs :
          (rc[r].resp = "search_timeout" /\ rc'[r].resp # "search_timeout")
             => (rc[r].pc = "done" /\ rc'[r] = Rc0)

\* C11: a search is answered search_timeout only when the timeout is
\* configured and its worker has not completed; the worker is kept (queued
\* or running, not cancelled) and the counter is released once; the later
\* completion of an abandoned worker changes no response and no counter, and
\* its result is dropped, never left for a handler to raise.
C11_SearchTimeout == [][TimeoutSteps]_vars

\* C11 witness: a search was answered search_timeout, its abandoned worker
\* has since run to completion, and the response and the counter are as
\* they were.
C11_Witness ==
    \E r \in Reqs :
        /\ rc[r].pc = "done" /\ rc[r].resp = "search_timeout"
        /\ rc[r].dec = 1
        /\ jobs = <<>>
        /\ active_searches = 0

\* ------------------------------------------------------------------- C12
\* the worker of request r has reached the store
StoreWork(r) == \E i \in 1..Len(jobs) : jobs[i].req = r /\ jobs[i].touched

\* request r is answered with code e in this step
Emits(r, e) == rc[r].resp # e /\ rc'[r].resp = e

AdmissionErrors == {"tenant_rate_limited", "search_overloaded",
                    "ingest_overloaded"}

\* C12 as stated: whenever a request is answered with tenant_rate_limited,
\* search_overloaded, ingest_overloaded or search_timeout, none of its work
\* has touched the store at that moment.
C12_ErrorsBeforeStoreWork ==
    [][\A r \in Reqs :
          (\E e \in AdmissionErrors \cup {"search_timeout"} : Emits(r, e))
             => ~StoreWork(r)]_vars

\* C12 amended: whenever a request is answered with tenant_rate_limited,
\* search_overloaded or ingest_overloaded, no worker was dispatched for it, so
\* none of its work has touched the store; a search_timeout is only emitted
\* for a dispatched search, whose worker may already be inside the store.
C12_AdmissionBeforeStoreWork ==
    [][\A r \in Reqs :
          /\ (\E e \in AdmissionErrors : Emits(r, e))
                => /\ ~StoreWork(r)
                   /\ \A i \in 1..Len(jobs) : jobs[i].req # r
                   /\ jobs' = jobs
          /\ Emits(r, "search_timeout")
                => \E i \in 1..Len(jobs) :
                      jobs[i].req = r /\ jobs[i].kind = "search"]_vars

\* one request was turned away at the tenant gate with no worker, another
\* timed out while its worker was inside the store
C12_Witness ==
    \E r, q \in Reqs :
       /\ rc[r].resp = "tenant_rate_limited" /\ rc[r].pc = "done"
       /\ rc[q].resp = "search_timeout" /\ rc[q].pc = "done"
       /\ \E i \in 1..Len(jobs) : jobs[i].req = 0 /\ jobs[i].touched

\* ------------------------------------------------------------------- C13
\* the gate decides request r in this step
Decided(r) == rc[r].pc = "new" /\ rc'[r].pc # "new"

TenantDecision ==
    \A r \in Reqs :
       /\ Decided(r) =>
            LET t   == caller'[r].tenant
                lim == IF t \in DOMAIN tenant_limits
                         THEN tenant_limits[t] ELSE tenant_default_limit
                rejected == rc'[r].resp = "tenant_rate_limited"
            IN  /\ rejected <=> /\ ~caller'[r].admin
                                /\ lim > 0
                                /\ tenant_active[t] >= lim
                /\ rejected =>
                      /\ rc'[r].pc = "done"
                      /\ caller'[r].headers
                           = [XRateLimitRemaining |-> 0, RetryAfter |-> 1]
                      /\ tenant_active' = tenant_active
                /\ lim = 0 => ~rejected
                /\ caller'[r].admin => ~rejected
       /\ Emits(r, "tenant_rate_limited") => Decided(r)

\* C13: with limit(t) the entry of tenant_limits for t, else
\* tenant_default_limit, a request is answered 429 tenant_rate_limited (with
\* X-RateLimit-Remaining: 0 and Retry-After: 1) exactly when its caller is not
\* admin, limit(t) > 0 and tenant_active[t] >= limit(t); a limit of 0 and an
\* admin caller are never rejected by the gate.
C13_TenantCapDecision == [][TenantDecision]_vars

\* an unconfigured tenant at the default cap: one request holds the slot, the
\* next one is rejected
C13_Witness ==
    \E r, q \in Reqs :
       /\ rc[r].pc = "done" /\ rc[r].resp = "tenant_rate_limited"
       /\ caller[r].tenant \notin DOMAIN tenant_limits
       /\ tenant_default_limit > 0
       /\ caller[r].headers = [XRateLimitRemaining |-> 0, RetryAfter |-> 1]
       /\ q # r /\ caller[q].held /\ caller[q].tenant = caller[r].tenant
       /\ tenant_active[caller[r].tenant] = tenant_default_limit

\* ------------------------------------------------------------------- C14
\* thread t returns from rename_collection in this step
RenameReturns(t) ==
    /\ frame'[t].op = "rename_collection" /\ pc'[t] = "done"
    /\ \/ pc[t] = "rn_body"
       \/ Resting(t) /\ nops' = nops + 1 /\ frame'[t].c = frame'[t].c2

\* the answer the taxonomy gives on the directories dk
RenameExpected(dk, old, new) ==
    IF old = new THEN "rename_invalid"
    ELSE IF ~dk[old].exists THEN "collection_not_found"
    ELSE IF dk[new].exists THEN "collection_conflict"
    ELSE "ok"

RenameTaxonomy ==
    \A t \in Threads : RenameReturns(t) =>
        LET exp == RenameExpected(disk, frame'[t].c, frame'[t].c2)
        IN  /\ frame'[t].res = exp
            /\ exp # "ok" => disk' = disk /\ emb' = emb

\* C14: rename_collection(t, old, new) answers rename_invalid if old = new,
\* else collection_not_found if old does not exist, else collection_conflict
\* if new exists, else succeeds; a failed rename leaves the directories, the
\* handles and the contents of both collections as they were.
C14_RenameTaxonomy == [][RenameTaxonomy]_vars

\* ------------------------------------------------------------------- C15
\* thread t completes a successful rename in this step
RenameOk(t) ==
    pc[t] = "rn_body" /\ pc'[t] = "done" /\ frame'[t].res = "ok"

RenamePreserves ==
    \A t \in Threads : RenameOk(t) =>
        LET a == frame[t].c
            b == frame[t].c2
        IN  /\ CollView(disk'[b], emb'[b]) = CollView(disk[a], emb[a])
            /\ ~disk'[a].exists /\ ~emb'[a].loaded
            /\ CollView(LoadOrInitDisk(disk'[a], emb'[a]), emb'[a])
                 = CollView(NoDir, NoEmb)

\* C15: after a successful rename_collection(t, a, b), b holds exactly the
\* catalog, the metadata and the rows searches answer from that a held just
\* before, a is gone, and a later search of a starts from a fresh empty
\* collection.
C15_RenamePreserves == [][RenamePreserves]_vars

\* ------------------------------------------------------------------- C16
\* thread t is suspended in lock.acquire()
Blocked(t) == \E c \in Colls : Waiting(t, c) /\ lockOwner[c] # 0

\* every mutex that is held is held by a thread inside a call
LocksReleased ==
    \A c \in Colls : lockOwner[c] # 0 => ~Resting(lockOwner[c])

\* C16: concurrent rename_collection calls (also rename(a, b) against
\* rename(b, a)) and single-collection operations all return: a thread inside
\* a call eventually rests, and a thread that rests holds no lock, whatever
\* the result of the pre-checks.
C16_RenameTerminates ==
    /\ [] LocksReleased
    /\ \A t \in Threads : (~Resting(t)) ~> Resting(t)

\* rename(a, b) holds its first lock while rename(b, a) waits for it
C16_Witness ==
    \E t, u \in Threads :
       /\ t # u
       /\ pc[t] = "rn_acq1" /\ pc[u] = "rn_acq0"
       /\ frame[t].c = frame[u].c2 /\ frame[t].c2 = frame[u].c
       /\ Blocked(u)

\* ------------------------------------------------------------------- C17
\* dump_archive of thread t is writing the ZIP
DumpWriting(t) == pc[t] \in {"da_list", "da_visit"}

\* C17: while dump_archive writes the ZIP it holds the lock of every
\* collection, so no critical section of index_records, purge_doc,
\* delete_collection, rename_collection or search overlaps the write; the
\* locks are back when the call has returned, also after a failed write.
C17_DumpHoldsEveryLock ==
    /\ \A t \in Threads : DumpWriting(t) =>
          /\ \A c \in Colls : disk[c].exists => lockOwner[c] = t
          /\ \A u \in Threads, c \in Colls : ~InCS(u, c)
    /\ LocksReleased

\* ------------------------------------------------------------------- C18
\* restore_archive of thread t has purged data_dir and not yet moved the
\* extracted entries into place
Swapping(t) == pc[t] = "ra_move"

\* C18: between the purge of data_dir and the end of the move no operation
\* on any collection, whether it was on disk before or comes with the
\* archive, is inside its critical section.
C18_RestoreAtomic ==
    \A t \in Threads : Swapping(t) =>
        \A u \in Threads, c \in Colls : ~InCS(u, c)

\* ------------------------------------------------------------------- C20
\* a member name that is absolute, starts with a separator or has a ".."
\* component
NameBad(n) ==
    n # <<>> /\ (n[1] \in {"/", "\\"} \/ <<"..">> \in Parts(n))

Invalid(up) == ~up.zip \/ \E n \in up.names : NameBad(n)

RejectsInvalid ==
    \A t \in Threads :
        (pc[t] = "ra_extract" /\ pc'[t] # "ra_extract") =>
            IF Invalid(frame[t].up)
              THEN /\ pc'[t] = "done"
                   /\ frame'[t].res = "archive_invalid"
                   /\ disk' = disk
              ELSE pc'[t] = "ra_scan"

\* C20: a restore whose upload is no valid archive, or has a member path
\* that is absolute, starts with a separator or contains "..", fails with
\* archive_invalid before anything in data_dir is purged or written.
C20_RejectsInvalid == [][RejectsInvalid]_vars

\* ------------------------------------------------------------------- C19
\* thread t completes the restore of a ZIP that a dump_archive produced
RestoredDump(t) ==
    /\ pc[t] = "ra_move" /\ pc'[t] = "done"
    /\ frame[t].up.src # <<>>

RoundTrip ==
    \A t \in Threads : RestoredDump(t) =>
        /\ frame'[t].res = "ok"
        /\ StoreView(disk', emb') = frame[t].up.src[1]

\* C19: dump_archive, then a wipe of data_dir, then restore_archive of the
\* ZIP the dump produced gives data_dir the tree it had when the dump
\* started (files, contents, empty directories; what the wipe left behind is
\* removed), and every collection answers searches from what it answered
\* from before the dump.
C19_RoundTrip == [][RoundTrip]_vars

\* the dump of a store with a collection of documents and an empty
\* collection directory was restored
C19_Witness ==
    \E t \in Threads :
        /\ pc[t] = "done" /\ frame[t].op = "restore_archive"
        /\ frame[t].res = "ok"
        /\ frame[t].up.src # <<>>
        /\ \E c \in Colls : disk[c].catalog # EmptyMap
        /\ \E c \in Colls : ZipDir(disk[c]).kind = "emptydir"

\* ------------------------------------------------------------------- C21
\* what docid d holds: its catalog entry and, for each of its chunk ids, the
\* metadata entry, the text of its sidecar file and the row a search hits
DocHolds(dk, em, d) ==
    LET ids == SeqToSet(CatGet(dk.catalog, d))
    IN  [cat  |-> CatGet(dk.catalog, d),
         meta |-> [u \in ids |-> Get(dk.meta, u, NoMeta)],
         side |-> [u \in ids |-> LoadChunkText(dk, u)],
         hits |-> [u \in ids |->
                     Get(LoadOrInitEmb(dk, em).docs, u,
                         [text |-> NoText, docid |-> NoDoc])]]

\* thread t takes a step of purge_doc
PurgeStep(t) ==
    pc[t] \in {"pg_files", "pg_save", "pg_engine"} /\ pc'[t] # pc[t]

OthersKept ==
    \A t \in Threads : PurgeStep(t) =>
        \A d \in DocIds \ {frame[t].d} :
            DocHolds(disk'[frame[t].c], emb'[frame[t].c], d)
              = DocHolds(disk[frame[t].c], emb[frame[t].c], d)

\* C21: purge_doc / delete_document of docid D leaves the catalog entry, the
\* metadata entries, the text sidecars and the search hits of every other
\* docid of the collection as they were.
C21_OthersKept == [][OthersKept]_vars

\* ------------------------------------------------------------------- C22
\* the index a fresh process would load from the collection directory
Persisted(dk) == IF dk.idx.saved THEN dk.idx.docs ELSE EmptyMap

\* thread t takes a step of create_collection
CreateStep(t) ==
    pc[t] \in {"cc_load", "cc_install", "cc_save"} /\ pc'[t] # pc[t]

CreateIdempotent ==
    \A t \in Threads :
        CreateStep(t) /\ disk[frame[t].c].exists =>
            LET c == frame[t].c
            IN  /\ CollView(disk'[c], emb'[c]) = CollView(disk[c], emb[c])
                /\ Persisted(disk'[c]) = Persisted(disk[c])
                /\ pc'[t] = "done" => frame'[t].res = "ok"

\* C22: create_collection(t, c) on a collection that already exists, empty
\* or populated, succeeds and leaves its catalog, metadata, sidecars,
\* persisted index and in-memory handle as they were.
C22_CreateIdempotent == [][CreateIdempotent]_vars

\* ------------------------------------------------------------------- C23
\* thread t takes a step of delete_document
DeleteStep(t) ==
    /\ frame[t].op = "delete_document"
    /\ pc[t] \in {"del_has_doc", "pg_acquire", "pg_files", "pg_save",
                  "pg_engine"}
    /\ pc'[t] # pc[t]

\* the call returns ok with chunks_deleted = 0
DeletedNone(t) ==
    pc'[t] = "done" /\ frame'[t].res = "ok" /\ frame'[t].cnt = 0

DeleteIdempotent ==
    \A t \in Threads : DeleteStep(t) =>
        LET c == frame[t].c
            d == frame[t].d
        IN  /\ pc[t] \in {"del_has_doc", "pg_files"}
                  /\ d \notin DOMAIN disk[c].catalog
               => DeletedNone(t) /\ disk' = disk /\ emb' = emb
            /\ pc'[t] = "done" /\ <<c, d>> \in purged => DeletedNone(t)

\* C23: delete_document of a docid with no catalog entry (never ingested,
\* already deleted, or in a collection that does not exist) returns ok with
\* chunks_deleted = 0 and changes nothing in the store; a delete_document
\* that follows a successful one of the same docid returns chunks_deleted = 0.
C23_DeleteIdempotent == [][DeleteIdempotent]_vars

\* the second delete_document of a document that was there has returned,
\* and so has one in a collection that does not exist
C23_Witness ==
    \E t, u \in Threads :
        /\ pc[t] = "done" /\ frame[t].op = "delete_document"
        /\ frame[t].cnt = 0 /\ frame[t].res = "ok"
        /\ frame[t].c = "a" /\ frame[t].d = DocPool[1]
        /\ frame[t].prev.op = "delete_document"
        /\ frame[t].prev.d = frame[t].d /\ frame[t].prev.c = frame[t].c
        /\ pc[u] = "done" /\ frame[u].op = "delete_document"
        /\ ~disk[frame[u].c].exists /\ frame[u].cnt = 0

\* ------------------------------------------------------------------- C29
\* sanit_sql was applied twice
Twice == Len(val) = 2

\* C29 as stated: for every input string x,
\* sanit_sql(sanit_sql(x)) = sanit_sql(x).
C29_SanitIdempotent == Twice => val[2] = val[1]

\* C29, amended: for every input string x whose sanitized form holds no
\* single quote, sanit_sql(sanit_sql(x)) = sanit_sql(x); a quote that is
\* left is doubled again by every application.
C29_SanitIdempotentUnquoted ==
    Twice /\ "'" \notin SeqToSet(val[1]) => val[2] = val[1]

\* a string whose quote sits behind a comment token was sanitized twice
C29_Witness ==
    /\ Twice
    /\ "'" \in SeqToSet(arg) /\ "-" \in SeqToSet(arg)
    /\ "'" \notin SeqToSet(val[1])
    /\ val[2] = val[1]

\* ------------------------------------------------------------------- C24
\* for every field of the filter, one of its values matches what the chunk
\* stores under that field
Satisfies(m, f) ==
    \A k \in DOMAIN f :
        \E i \in 1..Len(f[k]) : k \in DOMAIN m /\ Match(m[k], f[k][i])

\* C24: a chunk is returned only if every field of the filter has a value
\* that matches the chunk's stored value (AND across fields, OR within a
\* field), and a fetched chunk that satisfies this is not rejected, also
\* when a field lists exact or negated values next to wildcards or
\* comparators.
C24_FilterSemantics ==
    val # <<>> =>
        /\ val[1].kept => Satisfies(arg.m, arg.f)
        /\ val[1].fetched /\ Satisfies(arg.m, arg.f) => val[1].kept

\* ------------------------------------------------------------------- C25
\* the chunk ids the catalog lists
CatalogIds(dk) == UNION {SeqToSet(dk.catalog[d]) : d \in DOMAIN dk.catalog}

\* the text index_records last stored for chunk id u: the row it upserted
LastIndexed(em, u) == Get(em.docs, u, [text |-> NoText, docid |-> NoDoc]).text

SidecarsCorrespond(dk, em) ==
    LET ids == CatalogIds(dk)
    IN  /\ \A u \in ids :
              /\ Has(dk.chunks, UridToFname(u))
              /\ dk.chunks[UridToFname(u)] = LastIndexed(em, u)
              /\ \A v \in ids \ {u} : UridToFname(v) # UridToFname(u)
        /\ \A f \in DOMAIN dk.chunks :
              Cardinality({u \in ids \cup DOMAIN em.docs :
                              UridToFname(u) = f}) = 1

\* C25: after any sequence of index_records and purge_doc calls, every chunk
\* id of the catalog has its own sidecar file holding the text last indexed
\* for it, and every sidecar file belongs to exactly one chunk id that is
\* indexed (listed in the catalog or held by the engine).
C25_SidecarsCorrespond ==
    \A c \in Colls : Quiet => SidecarsCorrespond(disk[c], emb[c])

\* ------------------------------------------------------------------- C26
\* C26: for every docid and every record shape, the chunk id index_records
\* stores starts with "<docid>::" and the metadata stored with it has docid
\* equal to that docid, whatever local id or metadata docid the caller
\* supplied.
C26_ChunkIdNormalized ==
    val # <<>> =>
        /\ StartsWith(val[1].rid, DocPrefix(arg.d))
        /\ Get(val[1].meta, KeyDocid, NoDoc) = arg.d

\* ------------------------------------------------------------------- C27
\* the chunker yields no chunk with text for file f
NoTextIn(f) ==
    ~PreprocessRaises(f) /\ \A i \in 1..f.n : preprocess(f)[i].text = ""

TextNeverEmpty(dk, em) ==
    /\ \A u \in CatalogIds(dk) \cup DOMAIN dk.meta :
          Get(dk.chunks, UridToFname(u), NoText) # ""
    /\ \A x \in DOMAIN dk.chunks : dk.chunks[x] # ""
    /\ \A u \in DOMAIN em.docs : em.docs[u].text # ""

\* C27: no chunk with empty text is ever stored in the catalog, the metadata
\* map, the sidecars or the engine, and an ingest whose file yields no
\* non-empty chunk returns no_text_extracted.
C27_TextNeverEmpty ==
    /\ \A c \in Colls : TextNeverEmpty(disk[c], emb[c])
    /\ \A t \in Threads :
          (pc[t] = "done" /\ frame[t].op = "ingest_document"
             /\ NoTextIn(frame[t].f))
            => frame[t].res = "no_text_extracted"

\* ------------------------------------------------------------------- C28
ParseErrors == {"invalid_metadata_json", "invalid_csv_options"}

\* request r was dispatched: the gate counted it or a job was submitted
Dispatched(r) == rc[r].adm \/ \E i \in 1..Len(jobs) : jobs[i].req = r

\* C28: an ingest request answered with invalid_metadata_json or
\* invalid_csv_options was never dispatched to the ingest worker:
\* active_ingests was not incremented for it and no store call was made on
\* its behalf.
C28_ParseErrorsBeforeDispatch ==
    [][\A r \in Reqs :
          (\E e \in ParseErrors : Emits(r, e))
             => /\ ~Dispatched(r)
                /\ ~StoreWork(r)
                /\ active_ingests' = active_ingests]_vars

\* ------------------------------------------------------------------- C30
\* the module state was flushed: metrics.json holds it
Flushed == ~metrics.dirty

\* a fresh process loads metrics.json
StartupStep == metrics' = Load(Metrics0, metrics_file)

RoundTripMetrics ==
    (Flushed /\ StartupStep) =>
        /\ \A n \in DOMAIN metrics.counters :
              Get(metrics'.counters, n, 0) = metrics.counters[n]
        /\ metrics'.last_error = metrics.last_error
        /\ \A op \in DOMAIN metrics.latencies :
              Get(metrics'.latencies, op, <<>>)
                = LastN(metrics.latencies[op], LatencyWindow)

\* C30: after any sequence of inc, set_error and record_latency calls, a flush
\* followed by a startup load in a fresh process restores every counter to
\* its flushed value, restores last_error, and restores for each op the
\* latency samples truncated to the window.
C30_MetricsRoundTrip == [][RoundTripMetrics]_vars

\* ------------------------------------------------------------------- C31
\* C31: under every interleaving of rename_collection with dump_archive or
\* restore_archive every call returns: a thread inside a call eventually
\* rests.
C31_RenameArchiveTerminate ==
    \A t \in Threads : (~Resting(t)) ~> Resting(t)

\* ------------------------------------------------------------------- C32
\* a handle that is installed stays the handle of its key: its rows change
\* only by the upserts and deletes made through it
HandleKept ==
    \A t \in Threads :
        (pc[t] \in {"cc_load", "cc_install", "ix_prepare", "pg_files",
                    "sr_query"} /\ pc'[t] # pc[t])
          => LET c == frame[t].c
             IN  emb[c].loaded => emb'[c] = emb[c]

\* C32: load_or_init never replaces an index handle that is installed, under
\* every interleaving of create_collection (no collection lock) with
\* index_records, purge_doc and search (under the lock): the rows upserted
\* into the installed handle are not lost to a handle installed later.
C32_HandleKept == [][HandleKept]_vars

\* ------------------------------------------------------------------- C33
\* the search jobs of the executor that are queued or running
SearchLoad(q) ==
    Cardinality({i \in 1..Len(q) :
                    q[i].kind = "search" /\ q[i].st \in {"queued", "running"}})

\* C33: the search jobs queued or running in the search executor never
\* exceed max_searches, so a search that passes the gate finds a free worker
\* thread, also after earlier searches timed out.
C33_AdmittedStartsAtOnce == SearchLoad(jobs) <= MaxSearches

\* ------------------------------------------------------------------- C34
\* a restore_archive called by another thread has returned ok
RestoredBefore(t) ==
    \E u \in Threads \ {t} :
        frame[u].op = "restore_archive" /\ pc[u] = "done"
          /\ frame[u].res = "ok"

\* the rows a search keeps are rows of the index on disk; the index a write
\* saves holds the rows on disk and the rows of the call, no others
OnRestoredState ==
    \A t \in Threads : RestoredBefore(t) =>
        LET c == frame[t].c
        IN  /\ (pc[t] = "sr_query" /\ pc'[t] # pc[t])
                 => DOMAIN frame'[t].kept \subseteq DOMAIN Persisted(disk[c])
            /\ (pc[t] = "ix_upsert" /\ pc'[t] # pc[t])
                 => DOMAIN Persisted(disk'[c])
                      \subseteq DOMAIN Persisted(disk[c])
                                  \cup SeqToSet(frame[t].ids)

\* C34: after restore_archive returns, a search is answered from the restored
\* index and a write saves the restored index plus its own rows: a handle
\* loaded before the restore is neither searched nor saved over the restored
\* files.
C34_RestoreTakesEffect == [][OnRestoredState]_vars

\* ------------------------------------------------------------------- C35
CreatedListed ==
    \A t \in Threads :
        (pc[t] = "cc_save" /\ pc'[t] = "done" /\ frame'[t].res = "ok")
          => /\ frame[t].c \in list_collections(disk')
             /\ list_tenants(disk')

\* C35: when create_collection(t, c) returns ok, list_collections(t) contains
\* c and list_tenants contains t, also before any document is ingested.
C35_CreatedListed == [][CreatedListed]_vars

\* ------------------------------------------------------------------- C36
\* purge_doc returns: no exception, the count of chunk ids, and the
\* metadata entries, sidecars and catalog entry of the docid are gone
PurgeCompletes ==
    \A t \in Threads :
        (pc[t] = "pg_engine" /\ pc'[t] = "done") =>
            LET c == frame[t].c
                ids == SeqToSet(frame[t].ids)
            IN  /\ frame'[t].res = "ok" /\ frame'[t].cnt = Len(frame[t].ids)
                /\ ~has_doc(disk'[c], frame[t].d)
                /\ \A u \in ids :
                      /\ ~Has(disk'[c].meta, u)
                      /\ ~Has(disk'[c].chunks, UridToFname(u))

\* a search returns chunks of the catalog with the text of their sidecars
SearchFollowsCatalog ==
    \A t \in Threads :
        (pc[t] = "sr_out" /\ pc'[t] = "done") =>
            \A u \in DOMAIN frame'[t].out :
                /\ u \in CatalogIds(disk[frame[t].c])
                /\ frame'[t].out[u].text = LoadChunkText(disk[frame[t].c], u)

\* C36: when the engine's delete raises, purge_doc does not raise, removes
\* the document's metadata entries, sidecars and catalog entry and returns the
\* number of chunk ids; catalog and sidecars remain authoritative for the
\* searches that follow.
C36_EngineDeleteNonFatal == [][PurgeCompletes /\ SearchFollowsCatalog]_vars

\* ------------------------------------------------------------------- C37
\* the mutexes made for key k so far
MadeFor(k) == IF registry.locks[k] = 0 THEN {} ELSE {registry.locks[k]}

\* C37: all calls of get_lock(key), concurrent first calls included, return
\* the same mutex; at most one mutex is made per key (no more mutexes than
\* registered keys) and a registered mutex is never replaced.
C37_LockRegistryUnique ==
    /\ [](\A k \in Keys : registry.got[k] \subseteq MadeFor(k))
    /\ [](registry.made = Cardinality({k \in Keys : registry.locks[k] # 0}))
    /\ [][\A k \in Keys : registry.locks[k] # 0
              => registry'.locks[k] = registry.locks[k]]_vars

\* two first calls for one key raced: the second finds the key registered
\* when it holds the guard, and both calls' mutex has been returned
C37_Witness ==
    \E t \in Threads :
        /\ registry.at[t].pc = "recheck"
        /\ registry.locks[registry.at[t].key] # 0
        /\ registry.got[registry.at[t].key] # {}

\* ------------------------------------------------------------------- C38
\* how often v occurs in the sequence s
Count(s, v) == Cardinality({i \in 1..Len(s) : s[i] = v})

\* how often v is given for the sanitized key sk in the mapping fl
Given(fl, sk, v) ==
    LET is == {i \in 1..Len(fl) : SanitField(fl[i].k) = sk}
        Sum[S \in SUBSET is] ==
            IF S = {} THEN 0
            ELSE LET i == CHOOSE j \in S : TRUE
                 IN  Count(fl[i].vals, v) + Sum[S \ {i}]
    IN  Sum[is]

SplitPartitions(fl, pre, pos) ==
    /\ <<>> \notin DOMAIN pre \cup DOMAIN pos
    /\ \A sk \in {SanitField(fl[i].k) : i \in 1..Len(fl)} \ {<<>>} :
          \A v \in SplitConds :
              /\ Count(Get(pos, sk, <<>>), v)
                    = IF IsExtended(v) THEN Given(fl, sk, v) ELSE 0
              /\ Count(Get(pre, sk, <<>>), v)
                    = IF IsExtended(v) THEN 0 ELSE Given(fl, sk, v)

\* C38: every value of every field whose key sanitizes to a non-empty name is
\* in exactly one of pre-filter and post-filter (post iff it is a wildcard or
\* a comparison), as often as it was given: none dropped, none duplicated;
\* fields whose key sanitizes to empty are in neither.
C38_SplitPartition ==
    val # <<>> => SplitPartitions(arg, val[1].pre, val[1].pos)

\* ------------------------------------------------------------------- C39
\* the positions, among the first n engine rows, of the rows that have an
\* id and whose metadata passes the post-filter
GoodRows(rows, n) ==
    {i \in 1..Min(n, Len(rows)) :
        /\ rows[i] # 0
        /\ MatchesFilters(SearchMeta(rows[i]), SearchPos)}

TopKOf(rows, k, r) ==
    LET kk == IF k >= 1 THEN k ELSE 1
        fk == IF 5 * kk >= 50 THEN 5 * kk ELSE 50
        good == GoodRows(rows, fk)
    IN  /\ r.fetch_k = fk
        /\ Len(r.out) = Min(kk, Cardinality(good))
        /\ \A j \in 1..Len(r.out) :
              \E i \in good :
                  /\ Cardinality({h \in good : h < i}) = j - 1
                  /\ r.out[j] = rows[i]
        /\ \A j \in 1..Len(r.out) : r.out[j] # 0

\* C39: with k' = max(1, k) the engine is asked for max(50, 5 k') rows, and
\* the result is the first k' of the fetched rows, in engine order, that have
\* an id and pass the post-filter; at most k' rows, none without an id.
C39_TopKSelection ==
    val # <<>> => TopKOf(arg.rows, arg.k, val[1])

\* the fetch limit cuts a matching row off, a row without id and a failing
\* row are passed over, and the loop stops at k' rows with more to come
C39_Witness ==
    /\ val # <<>>
    /\ arg.k = 2
    /\ Len(arg.rows) > val[1].fetch_k
    /\ Len(val[1].out) = 2
    /\ val[1].out[1] # val[1].out[2]
    /\ \E i, j \in 1..Len(arg.rows) :
          /\ i < j /\ arg.rows[i] = 0 /\ arg.rows[j] = val[1].out[1]

C39_WitnessFloor ==
    /\ val # <<>>
    /\ arg.k = 1
    /\ Len(arg.rows) > FetchFloor
    /\ arg.rows[Len(arg.rows)] = 1
    /\ val[1].out = <<>>

\* ------------------------------------------------------------------- C40
\* a mutation leaves metrics.json alone and sets the dirty flag
MutationDefers ==
    Mutation => metrics_file' = metrics_file /\ metrics'.dirty

\* flush on a clean state starts no save; on a dirty state it starts one
FlushIffDirty ==
    \A t \in Threads :
        /\ FlushClean(t) => ~metrics.dirty /\ saving' = saving
        /\ FlushCall(t) => metrics.dirty /\ saving'[t].pc = "save"

\* with the flag false and no save or reset under way, a written
\* metrics.json holds the state in memory
FileCurrent ==
    (~metrics.dirty /\ saving = NoSaving /\ metrics_file.exists)
        => metrics_file = FileOf(metrics)

\* C40: inc, set_error and record_latency never write metrics.json and always
\* set the dirty flag; flush writes iff dirty; and whenever the dirty flag is
\* false and no save is in progress, metrics.json equals the counters,
\* last_error and latency samples in memory.
C40_NoUpdateLost ==
    /\ [][MutationDefers /\ FlushIffDirty]_vars
    /\ []FileCurrent

====
